---- MODULE Spec2Model ----
(***************************************************************************)
(* Model of the free-slot search of the TailorTalk calendar service        *)
(* (backend/cal_service/google_calendar.py, GoogleCalendarService.         *)
(* find_free_slots).                                                       *)
(*                                                                         *)
(* Time is counted in seconds from 00:00:00 UTC of a Monday (day 0), so    *)
(* day d has weekday d % 7 with Monday = 0 ... Sunday = 6, as Python's     *)
(* datetime.weekday().  The callers hand find_free_slots naive datetimes,  *)
(* which it localizes to UTC, and every busy timestamp is parsed to an     *)
(* aware datetime, so all comparisons are comparisons of UTC instants.     *)
(*                                                                         *)
(* The second half models the date resolver of the smart agent             *)
(* (backend/agents/smart_agent.py, SmartTailorTalkAgent._parse_smart_date).*)
(* There a datetime is the record of its fields and a string is the        *)
(* sequence of its characters.                                             *)
(*                                                                         *)
(* Then follow the /chat endpoint with the agent all sessions share        *)
(* (backend/api/app.py), the scripted agent (backend/agents/               *)
(* lang_agent_basic.py, TailorTalkAgent) and GoogleCalendarService.        *)
(* authenticate.  Each part has its own specification; the variables of    *)
(* the other parts stay as their idle predicates set them.                 *)
(***************************************************************************)
EXTENDS Integers, Naturals, Sequences, FiniteSets, TLC

VARIABLES
    pc,                \* position in find_free_slots: "start", "loop", "done"
    start_date,        \* argument start_date
    end_date,          \* argument end_date
    duration_minutes,  \* argument duration_minutes
    business_hours,    \* argument business_hours, <<open, close>>
    busy_periods,      \* what get_availability returned (list of start/end strings)
    busy_times,        \* parsed and sorted busy intervals
    current_time,      \* the sweep cursor
    end_business_day,  \* the loop bound
    free_slots,        \* slots appended so far
    result,            \* the returned list
    service,           \* self.service: the API handle, or "None" in demo mode
    credentials,       \* self.credentials
    returned,          \* the calls completed so far: what the calendar
                       \* supplied and what find_free_slots returned
    rpc,               \* position in _parse_smart_date: "start", "done"
    date_preference,   \* argument date_preference
    now,               \* self.current_time
    parsed_range,      \* the returned pair (start_date, end_date)
    parse_trace,       \* the branch taken and the exception handled
    clock,             \* the UTC instant the server's clock shows
    agent,             \* the shared SmartTailorTalkAgent: timezone, tz and
                       \* current_time, or "None"
    sessions,          \* app.py sessions: session id -> agent state
    apc,               \* position of the /chat request under way
    message,           \* the ChatMessage of the request
    session_id,        \* local session_id of chat
    state,             \* local state of process_message
    response,          \* the last ChatResponse sent
    issued,            \* number of uuid4 identifiers generated
    handled,           \* number of requests answered
    sent,              \* session id -> user messages processed since the
                       \* session was last cleared
    solo,              \* session id -> the agent's attributes had only that
                       \* session's requests been served
    agent_state,       \* the AgentState the scripted agent returned last
    user_input,        \* argument user_input of the call under way
    spc,               \* position of TailorTalkAgent.process_message
    local_now,         \* what datetime.now() returns, a naive datetime
    calendar_events,   \* the create_event calls made, oldest first
    calls,             \* number of process_message calls made
    offered,           \* the available_slots of the last availability check
    selections,        \* number of slot selections made
    environ,           \* what authenticate() finds: environment and files
    auth_pc,           \* position in GoogleCalendarService.authenticate
    auth_result        \* what authenticate() returned

finderVars == <<pc, start_date, end_date, duration_minutes, business_hours,
                busy_periods, busy_times, current_time, end_business_day,
                free_slots, result, returned>>

\* the attributes of the service object
serviceVars == <<service, credentials>>

resolverVars == <<rpc, date_preference, now, parsed_range, parse_trace>>

apiVars == <<clock, agent, sessions, apc, message, session_id, state,
             response, issued, handled, sent, solo>>

scriptVars == <<agent_state, user_input, spc, local_now, calendar_events,
                calls, offered, selections>>

authVars == <<environ, auth_pc, auth_result>>

vars == <<finderVars, serviceVars, resolverVars, apiVars, scriptVars,
          authVars>>

----------------------------------------------------------------------------
(* Bounds of the model *)

\* largest number of busy periods the calendar returns
MaxBusy == 2
\* largest number of days between the day of start_date and the day of end_date
MaxSpan == 3
\* largest number of find_free_slots calls made on one service object
MaxCalls == 2
\* number of calendar years the reference time is drawn from
RefYears == 2
\* largest number of requests the API answers
MaxRequests == 2
\* largest number of process_message calls of one scripted conversation
MaxTurns == 9

----------------------------------------------------------------------------
(* Program constants *)

DefaultDuration == 60
DefaultOpenHour == 9
DefaultCloseHour == 17
FirstWeekendDay == 5
SlotStepMinutes == 30
RetryStepMinutes == 15
MaxReturned == 10

----------------------------------------------------------------------------
(* datetime / timedelta arithmetic *)

Minutes(n) == n * 60
Hours(n) == n * 3600
Days(n) == n * 86400

DayOf(t) == t \div 86400
HourOf(t) == (t % 86400) \div 3600
Weekday(t) == DayOf(t) % 7

\* dt.replace(hour=h, minute=0, second=0, microsecond=0)
ReplaceHour(t, h) == Days(DayOf(t)) + Hours(h)

Min(a, b) == IF a < b THEN a ELSE b

----------------------------------------------------------------------------
(* Timestamps as the calendar API returns them.  A timestamp string is     *)
(* [fmt, v]: fmt "dateTime" is an ISO date-time (it contains 'T'), v its   *)
(* instant; fmt "date" is an ISO date 'YYYY-MM-DD', v its day number;      *)
(* fmt "bad" is a string datetime.fromisoformat rejects.                   *)

ParseError == -1

DateTimeStr(t) == [fmt |-> "dateTime", v |-> t]
DateStr(d) == [fmt |-> "date", v |-> d]
BadStr == [fmt |-> "bad", v |-> 0]

\* datetime.fromisoformat(s.replace('Z', '+00:00')), then utc.localize if naive
FromIsoDateTime(s) ==
    CASE s.fmt = "dateTime" -> s.v
      [] s.fmt = "date" -> Days(s.v)
      [] OTHER -> ParseError

\* datetime.fromisoformat(s + 'T00:00:00+00:00')
FromIsoDateStart(s) ==
    IF s.fmt = "date" THEN Days(s.v) ELSE ParseError

\* datetime.fromisoformat(s + 'T23:59:59+00:00')
FromIsoDateEnd(s) ==
    IF s.fmt = "date" THEN Days(s.v) + Hours(23) + Minutes(59) + 59 ELSE ParseError

\* the body of the try block: the parsed (start, end) pair, or ParseError
\* for both when either timestamp raises
ParsePeriod(p) ==
    LET ps == IF p.start.fmt = "dateTime"
              THEN FromIsoDateTime(p.start) ELSE FromIsoDateStart(p.start)
        pe == IF p.start.fmt = "dateTime"
              THEN FromIsoDateTime(p.end) ELSE FromIsoDateEnd(p.end)
    IN  IF ps = ParseError \/ pe = ParseError
        THEN [start |-> ParseError, end |-> ParseError]
        ELSE [start |-> ps, end |-> pe]

\* a loop that gives up at the first unparseable period
RECURSIVE ParseBusyAbort(_)
ParseBusyAbort(ps) ==
    IF ps = << >> THEN << >>
    ELSE LET b == ParsePeriod(Head(ps))
         IN  IF b.start = ParseError
             THEN << >>
             ELSE <<b>> \o ParseBusyAbort(Tail(ps))

\* the for loop over busy_periods: unparseable periods are skipped
RECURSIVE ParseBusy(_)
ParseBusy(ps) ==
    IF ps = << >> THEN << >>
    ELSE LET b == ParsePeriod(Head(ps))
         IN  IF b.start = ParseError
             THEN ParseBusy(Tail(ps))
             ELSE <<b>> \o ParseBusy(Tail(ps))

\* list.sort(key=lambda x: x[0]): stable, ascending by start
RECURSIVE InsertByStart(_, _)
InsertByStart(b, s) ==
    IF s = << >> THEN <<b>>
    ELSE IF b.start < Head(s).start
         THEN <<b>> \o s
         ELSE <<Head(s)>> \o InsertByStart(b, Tail(s))

RECURSIVE SortByStart(_)
SortByStart(s) ==
    IF s = << >> THEN << >>
    ELSE InsertByStart(s[Len(s)], SortByStart(SubSeq(s, 1, Len(s) - 1)))

----------------------------------------------------------------------------
(* One pass of the while loop *)

\* a slot end that uses the stride of the sweep for the length of the slot
SlotEndByStep(cur) == cur + Minutes(SlotStepMinutes)

\* slot_end = current_time + timedelta(minutes=duration_minutes)
SlotEnd(cur) == cur + Minutes(duration_minutes)

\* an overlap test that looks only at where the busy interval starts
ConflictsStartOnly(cur, b) == cur <= b.start /\ SlotEnd(cur) > b.start

\* the overlap test of the inner for loop
Conflicts(cur, b) == cur < b.end /\ SlotEnd(cur) > b.start

\* index of the busy interval at which the inner for loop breaks, 0 if none
FirstConflict(cur) ==
    IF \E i \in 1..Len(busy_times) : Conflicts(cur, busy_times[i])
    THEN CHOOSE i \in 1..Len(busy_times) :
            /\ Conflicts(cur, busy_times[i])
            /\ \A j \in 1..(i - 1) : ~Conflicts(cur, busy_times[j])
    ELSE 0

\* a cursor that jumps to where the busy interval starts
AfterConflictAtStart(b) == b.start

\* the cursor the loop leaves behind after a conflict with busy interval b
AfterConflict(b) == b.end + Minutes(RetryStepMinutes)

\* the test that guards the append, apart from is_free
WithinClose(slot_end) == HourOf(slot_end) <= business_hours[2]

\* free_slots[-10:]
TruncateLast(slots) ==
    SubSeq(slots, Len(slots) - Min(Len(slots), MaxReturned) + 1, Len(slots))

\* free_slots[:10]
Truncate(slots) == SubSeq(slots, 1, Min(Len(slots), MaxReturned))

\* the while condition
InLoop == pc = "loop" /\ current_time < end_business_day
\* a weekend test that lets Saturday through
OnWeekendSundayOnly == Weekday(current_time) > FirstWeekendDay

\* current_time.weekday() >= 5
OnWeekend == Weekday(current_time) >= FirstWeekendDay

----------------------------------------------------------------------------
(* Inputs *)

Friday == Days(4)

StartDates == {Friday, Friday + Hours(14), Friday + Days(1) + Hours(8)}

EndDates ==
    {Days(d) + tod : d \in 3..(4 + MaxSpan),
                     tod \in {Hours(10), Hours(23) + Minutes(59) + 59}}

Durations == {45, DefaultDuration}

BusinessHours == {<<DefaultOpenHour, DefaultCloseHour>>, <<8, 12>>}

\* the callers leave business_hours at its default and vary the duration;
\* other hours are tried with the default duration
CallOptions ==
    { <<d, <<DefaultOpenHour, DefaultCloseHour>> >> : d \in Durations }
        \cup { <<DefaultDuration, bh>> : bh \in BusinessHours }

Period(s, e) == [start |-> s, end |-> e]

PeriodPool ==
    << Period(DateTimeStr(Friday + Hours(10)), DateTimeStr(Friday + Hours(11))),
       Period(DateTimeStr(Friday + Hours(9)),
              DateTimeStr(Friday + Hours(15) + Minutes(10))),
       Period(DateTimeStr(Friday + Hours(16)),
              DateTimeStr(Friday + Days(1) + Hours(10))),
       Period(DateTimeStr(Friday + Hours(10) + Minutes(15)),
              DateTimeStr(Friday + Hours(9) + Minutes(45))),
       Period(DateStr(4), DateStr(4)),
       Period(BadStr, DateTimeStr(Friday + Hours(11))),
       Period(DateTimeStr(Friday + Hours(12)), BadStr) >>

\* the ways to pick n entries of the pool, in its order or in the reverse
Picks(n) ==
    { f \in [1..n -> 1..Len(PeriodPool)] :
        \/ \A i \in 1..(n - 1) : f[i] < f[i + 1]
        \/ \A i \in 1..(n - 1) : f[i] > f[i + 1] }

\* lists of at most MaxBusy distinct periods, not always sorted by start
PeriodLists ==
    UNION { { [i \in 1..n |-> PeriodPool[f[i]]] : f \in Picks(n) } :
            n \in 0..MaxBusy }

\* _demo_busy_periods: one meeting 10:00-11:00 on the day of start_date
DemoBusyPeriods(sd) ==
    << Period(DateTimeStr(ReplaceHour(sd, 10)),
              DateTimeStr(ReplaceHour(sd, 10) + Hours(1))) >>

\* get_availability: the demo periods without a service handle; with one,
\* the events the API lists, or the demo periods after an HttpError
GetAvailability(svc, sd) ==
    IF svc = "None"
    THEN {DemoBusyPeriods(sd)}
    ELSE PeriodLists \cup {DemoBusyPeriods(sd)}

\* the service attributes authenticate() can leave behind
ServiceStates ==
    { [service |-> "None", credentials |-> "None"],
      [service |-> "None", credentials |-> "Credentials"],
      [service |-> "Resource", credentials |-> "Credentials"] }

\* a period both of whose timestamps are ISO strings
WellFormed(p) == p.start.fmt # "bad" /\ p.end.fmt # "bad"

\* the calendar's answer once its malformed entries are taken out
WithoutMalformed(ps) == SelectSeq(ps, WellFormed)

\* no _parse_smart_date call is under way
ResolverIdle ==
    /\ rpc = "idle"
    /\ date_preference = << >>
    /\ now = << >>
    /\ parsed_range = << >>
    /\ parse_trace = << >>

\* None, where the other values of the variable are records
Null == [none |-> TRUE]

\* no /chat request has been served
ApiIdle ==
    /\ clock = << >>
    /\ agent = Null
    /\ sessions = << >>
    /\ apc = "off"
    /\ message = Null
    /\ session_id = << >>
    /\ state = Null
    /\ response = Null
    /\ issued = 0
    /\ handled = 0
    /\ sent = << >>
    /\ solo = << >>

\* the scripted agent is not part of the run
ScriptIdle ==
    /\ agent_state = Null
    /\ user_input = << >>
    /\ spc = "off"
    /\ local_now = Null
    /\ calendar_events = << >>
    /\ calls = 0
    /\ offered = << >>
    /\ selections = 0

\* authenticate() has run before the run begins
AuthIdle ==
    /\ environ = Null
    /\ auth_pc = "off"
    /\ auth_result = "None"

OthersIdle == ScriptIdle /\ AuthIdle

----------------------------------------------------------------------------
(* The state machine *)

Init ==
    /\ ResolverIdle
    /\ ApiIdle
    /\ OthersIdle
    /\ pc = "start"
    /\ \E st \in ServiceStates :
          service = st.service /\ credentials = st.credentials
    /\ start_date \in StartDates
    /\ end_date \in EndDates
    /\ \E opt \in CallOptions :
          duration_minutes = opt[1] /\ business_hours = opt[2]
    /\ busy_periods \in GetAvailability(service, start_date)
    /\ returned = << >>
    /\ busy_times = << >>
    /\ current_time = 0
    /\ end_business_day = 0
    /\ free_slots = << >>
    /\ result = << >>

\* a call that goes on appending to the slots of the call before it
PrepareKeepingSlots ==
    /\ pc = "start"
    /\ current_time' = ReplaceHour(start_date, business_hours[1])
    /\ end_business_day' = ReplaceHour(end_date, business_hours[2])
    /\ busy_times' = SortByStart(ParseBusy(busy_periods))
    /\ pc' = "loop"
    /\ UNCHANGED <<start_date, end_date, duration_minutes, business_hours,
                   busy_periods, free_slots, result, returned>>
    /\ UNCHANGED serviceVars
    /\ UNCHANGED resolverVars
    /\ UNCHANGED apiVars
    /\ UNCHANGED <<scriptVars, authVars>>

\* lines 267-307: the cursor, the loop bound and the sorted busy list
Prepare ==
    /\ pc = "start"
    /\ current_time' = ReplaceHour(start_date, business_hours[1])
    /\ end_business_day' = ReplaceHour(end_date, business_hours[2])
    /\ busy_times' = SortByStart(ParseBusy(busy_periods))
    /\ free_slots' = << >>
    /\ pc' = "loop"
    /\ UNCHANGED <<start_date, end_date, duration_minutes, business_hours,
                   busy_periods, result, returned>>
    /\ UNCHANGED serviceVars
    /\ UNCHANGED resolverVars
    /\ UNCHANGED apiVars
    /\ UNCHANGED <<scriptVars, authVars>>

\* lines 315-318: a cursor on Saturday or Sunday moves to the next day's open hour
SkipWeekend ==
    /\ InLoop
    /\ OnWeekend
    /\ current_time' = ReplaceHour(current_time + Days(1), business_hours[1])
    /\ UNCHANGED <<pc, start_date, end_date, duration_minutes, business_hours,
                   busy_periods, busy_times, end_business_day, free_slots,
                   result, returned>>
    /\ UNCHANGED serviceVars
    /\ UNCHANGED resolverVars
    /\ UNCHANGED apiVars
    /\ UNCHANGED <<scriptVars, authVars>>

\* lines 322-326 and 335-336: the candidate overlaps a busy interval
SkipBusy ==
    /\ InLoop
    /\ ~OnWeekend
    /\ FirstConflict(current_time) # 0
    /\ current_time' = AfterConflict(busy_times[FirstConflict(current_time)])
    /\ UNCHANGED <<pc, start_date, end_date, duration_minutes, business_hours,
                   busy_periods, busy_times, end_business_day, free_slots,
                   result, returned>>
    /\ UNCHANGED serviceVars
    /\ UNCHANGED resolverVars
    /\ UNCHANGED apiVars
    /\ UNCHANGED <<scriptVars, authVars>>

\* lines 328-334: the candidate is free and passes the close-hour test
EmitSlot ==
    /\ InLoop
    /\ ~OnWeekend
    /\ FirstConflict(current_time) = 0
    /\ WithinClose(SlotEnd(current_time))
    /\ free_slots' = Append(free_slots,
                            [start |-> current_time,
                             end |-> SlotEnd(current_time),
                             duration_minutes |-> duration_minutes])
    /\ current_time' = current_time + Minutes(SlotStepMinutes)
    /\ UNCHANGED <<pc, start_date, end_date, duration_minutes, business_hours,
                   busy_periods, busy_times, end_business_day, result,
                   returned>>
    /\ UNCHANGED serviceVars
    /\ UNCHANGED resolverVars
    /\ UNCHANGED apiVars
    /\ UNCHANGED <<scriptVars, authVars>>

\* lines 335-336: the candidate is free but fails the close-hour test
RetryLater ==
    /\ InLoop
    /\ ~OnWeekend
    /\ FirstConflict(current_time) = 0
    /\ ~WithinClose(SlotEnd(current_time))
    /\ current_time' = current_time + Minutes(RetryStepMinutes)
    /\ UNCHANGED <<pc, start_date, end_date, duration_minutes, business_hours,
                   busy_periods, busy_times, end_business_day, free_slots,
                   result, returned>>
    /\ UNCHANGED serviceVars
    /\ UNCHANGED resolverVars
    /\ UNCHANGED apiVars
    /\ UNCHANGED <<scriptVars, authVars>>

\* line 338: the loop condition fails and the first ten slots are returned
Return ==
    /\ pc = "loop"
    /\ ~(current_time < end_business_day)
    /\ result' = Truncate(free_slots)
    /\ returned' = Append(returned, [busy_periods |-> busy_periods,
                                     result |-> Truncate(free_slots)])
    /\ pc' = "done"
    /\ UNCHANGED <<start_date, end_date, duration_minutes, business_hours,
                   busy_periods, busy_times, current_time, end_business_day,
                   free_slots>>
    /\ UNCHANGED serviceVars
    /\ UNCHANGED resolverVars
    /\ UNCHANGED apiVars
    /\ UNCHANGED <<scriptVars, authVars>>

\* the caller calls find_free_slots again with the same arguments, and the
\* calendar supplies the same busy periods
CallAgain ==
    /\ pc = "done"
    /\ Len(returned) < MaxCalls
    /\ pc' = "start"
    /\ UNCHANGED <<start_date, end_date, duration_minutes, business_hours,
                   busy_periods, busy_times, current_time, end_business_day,
                   free_slots, result, returned>>
    /\ UNCHANGED serviceVars
    /\ UNCHANGED resolverVars
    /\ UNCHANGED apiVars
    /\ UNCHANGED <<scriptVars, authVars>>

\* the caller calls find_free_slots again with the same arguments, and the
\* calendar supplies the same busy periods without the malformed ones
CallAgainCleaned ==
    /\ pc = "done"
    /\ Len(returned) < MaxCalls
    /\ service # "None"
    /\ WithoutMalformed(busy_periods) # busy_periods
    /\ busy_periods' = WithoutMalformed(busy_periods)
    /\ pc' = "start"
    /\ UNCHANGED <<start_date, end_date, duration_minutes, business_hours,
                   busy_times, current_time, end_business_day,
                   free_slots, result, returned>>
    /\ UNCHANGED serviceVars
    /\ UNCHANGED resolverVars
    /\ UNCHANGED apiVars
    /\ UNCHANGED <<scriptVars, authVars>>

Next ==
    \/ Prepare
    \/ SkipWeekend
    \/ SkipBusy
    \/ EmitSlot
    \/ RetryLater
    \/ Return
    \/ CallAgain
    \/ CallAgainCleaned

Spec == Init /\ [][Next]_vars

\* the steps of one call
SweepNext ==
    \/ Prepare
    \/ SkipWeekend
    \/ SkipBusy
    \/ EmitSlot
    \/ RetryLater
    \/ Return

\* one call, whose steps are taken as long as one is possible
FairSpec == Init /\ [][SweepNext]_vars /\ WF_vars(SweepNext)

----------------------------------------------------------------------------
(* Strings as sequences of characters *)

UpperCase == <<"A", "B", "C", "D", "E", "F", "G", "H", "I", "J", "K", "L", "M",
               "N", "O", "P", "Q", "R", "S", "T", "U", "V", "W", "X", "Y", "Z">>
LowerCase == <<"a", "b", "c", "d", "e", "f", "g", "h", "i", "j", "k", "l", "m",
               "n", "o", "p", "q", "r", "s", "t", "u", "v", "w", "x", "y", "z">>
Digits == <<"0", "1", "2", "3", "4", "5", "6", "7", "8", "9">>

IsSpace(c) == c = " "
IsDigit(c) == \E i \in 1..10 : Digits[i] = c
DigitValue(c) == (CHOOSE i \in 1..10 : Digits[i] = c) - 1

\* str.lower()
LowerChar(c) ==
    IF \E i \in 1..26 : UpperCase[i] = c
    THEN LowerCase[CHOOSE i \in 1..26 : UpperCase[i] = c]
    ELSE c
Lower(str) == [i \in 1..Len(str) |-> LowerChar(str[i])]

\* str.strip()
RECURSIVE Strip(_)
Strip(str) ==
    IF str = << >> THEN str
    ELSE IF IsSpace(Head(str)) THEN Strip(Tail(str))
    ELSE IF IsSpace(str[Len(str)]) THEN Strip(SubSeq(str, 1, Len(str) - 1))
    ELSE str

\* str[i:].startswith(w), i counted from 1
StartsAt(str, i, w) ==
    /\ i >= 1
    /\ i + Len(w) - 1 <= Len(str)
    /\ SubSeq(str, i, i + Len(w) - 1) = w

\* w in str
Contains(str, w) == \E i \in 1..Len(str) : StartsAt(str, i, w)

----------------------------------------------------------------------------
(* The keywords of _parse_smart_date *)

KwToday == <<"t", "o", "d", "a", "y">>
KwTomorrow == <<"t", "o", "m", "o", "r", "r", "o", "w">>
KwNextWeek == <<"n", "e", "x", "t", " ", "w", "e", "e", "k">>
KwNext == <<"n", "e", "x", "t">>

\* day_names, Monday first
DayNames ==
    << <<"m", "o", "n", "d", "a", "y">>,
       <<"t", "u", "e", "s", "d", "a", "y">>,
       <<"w", "e", "d", "n", "e", "s", "d", "a", "y">>,
       <<"t", "h", "u", "r", "s", "d", "a", "y">>,
       <<"f", "r", "i", "d", "a", "y">>,
       <<"s", "a", "t", "u", "r", "d", "a", "y">>,
       <<"s", "u", "n", "d", "a", "y">> >>

\* the ordinal suffixes the pattern lets follow the day number
OrdinalSuffixes == { <<"s", "t">>, <<"n", "d">>, <<"r", "d">>, <<"t", "h">> }

\* the month alternatives of the pattern, in the order the pattern lists
\* them, each with the number month_map gives it
MonthAlternatives ==
    << [name |-> <<"j", "a", "n", "u", "a", "r", "y">>, month |-> 1],
       [name |-> <<"f", "e", "b", "r", "u", "a", "r", "y">>, month |-> 2],
       [name |-> <<"m", "a", "r", "c", "h">>, month |-> 3],
       [name |-> <<"a", "p", "r", "i", "l">>, month |-> 4],
       [name |-> <<"m", "a", "y">>, month |-> 5],
       [name |-> <<"j", "u", "n", "e">>, month |-> 6],
       [name |-> <<"j", "u", "l", "y">>, month |-> 7],
       [name |-> <<"a", "u", "g", "u", "s", "t">>, month |-> 8],
       [name |-> <<"s", "e", "p", "t", "e", "m", "b", "e", "r">>, month |-> 9],
       [name |-> <<"o", "c", "t", "o", "b", "e", "r">>, month |-> 10],
       [name |-> <<"n", "o", "v", "e", "m", "b", "e", "r">>, month |-> 11],
       [name |-> <<"d", "e", "c", "e", "m", "b", "e", "r">>, month |-> 12],
       [name |-> <<"j", "a", "n">>, month |-> 1],
       [name |-> <<"f", "e", "b">>, month |-> 2],
       [name |-> <<"m", "a", "r">>, month |-> 3],
       [name |-> <<"a", "p", "r">>, month |-> 4],
       [name |-> <<"m", "a", "y">>, month |-> 5],
       [name |-> <<"j", "u", "n">>, month |-> 6],
       [name |-> <<"j", "u", "l">>, month |-> 7],
       [name |-> <<"a", "u", "g">>, month |-> 8],
       [name |-> <<"s", "e", "p">>, month |-> 9],
       [name |-> <<"o", "c", "t">>, month |-> 10],
       [name |-> <<"n", "o", "v">>, month |-> 11],
       [name |-> <<"d", "e", "c">>, month |-> 12] >>

----------------------------------------------------------------------------
(* The pattern (\d{1,2})(?:st|nd|rd|th)?\s+(january|...|dec)               *)

NoMatch == [day |-> -1, month |-> -1]

\* how many digits \d{1,2} takes at position i: a match needs the character
\* after the digits to be a suffix or white space, so a shorter take never
\* succeeds where the longer one fails
DigitsAt(str, i) ==
    IF i > Len(str) \/ ~IsDigit(str[i]) THEN 0
    ELSE IF i + 1 <= Len(str) /\ IsDigit(str[i + 1]) THEN 2
    ELSE 1

\* the position after the optional suffix that starts at position p
AfterSuffix(str, p) ==
    IF \E sfx \in OrdinalSuffixes :
          StartsAt(str, p, sfx) /\ p + 2 <= Len(str) /\ IsSpace(str[p + 2])
    THEN p + 2
    ELSE p

\* the position after the white space that starts at position q
RECURSIVE AfterSpaces(_, _)
AfterSpaces(str, q) ==
    IF q <= Len(str) /\ IsSpace(str[q]) THEN AfterSpaces(str, q + 1) ELSE q

\* the first alternative of the month group that matches at position r, or 0
MonthAt(str, r) ==
    IF \E k \in 1..Len(MonthAlternatives) :
          StartsAt(str, r, MonthAlternatives[k].name)
    THEN CHOOSE k \in 1..Len(MonthAlternatives) :
            /\ StartsAt(str, r, MonthAlternatives[k].name)
            /\ \A j \in 1..(k - 1) : ~StartsAt(str, r, MonthAlternatives[j].name)
    ELSE 0

\* the match of the pattern that starts at position i: int(group(1)) and
\* month_map[group(2)], or NoMatch
MatchAt(str, i) ==
    LET n == DigitsAt(str, i)
        q == AfterSuffix(str, i + n)
        r == AfterSpaces(str, q)
    IN  IF n = 0 \/ r = q \/ MonthAt(str, r) = 0
        THEN NoMatch
        ELSE [day |-> IF n = 2
                      THEN 10 * DigitValue(str[i]) + DigitValue(str[i + 1])
                      ELSE DigitValue(str[i]),
              month |-> MonthAlternatives[MonthAt(str, r)].month]

\* re.search: the match at the leftmost position that has one
DatePattern(str) ==
    IF \E i \in 1..Len(str) : MatchAt(str, i) # NoMatch
    THEN MatchAt(str, CHOOSE i \in 1..Len(str) :
                        /\ MatchAt(str, i) # NoMatch
                        /\ \A j \in 1..(i - 1) : MatchAt(str, j) = NoMatch)
    ELSE NoMatch

----------------------------------------------------------------------------
(* datetime values as records of their fields *)

\* the year whose 1 January is day 0, a Monday
EpochYear == 2024

IsLeap(y) == (y % 4 = 0 /\ y % 100 # 0) \/ y % 400 = 0

DaysInMonth(y, m) ==
    CASE m \in {4, 6, 9, 11} -> 30
      [] m = 2 -> IF IsLeap(y) THEN 29 ELSE 28
      [] OTHER -> 31

\* whether datetime(y, m, d) exists; replace() raises ValueError if not
ValidDate(y, m, d) == m \in 1..12 /\ d >= 1 /\ d <= DaysInMonth(y, m)

RECURSIVE DaysBeforeYear(_)
DaysBeforeYear(y) ==
    IF y <= EpochYear THEN 0
    ELSE DaysBeforeYear(y - 1) + (IF IsLeap(y - 1) THEN 366 ELSE 365)

RECURSIVE DaysBeforeMonth(_, _)
DaysBeforeMonth(y, m) ==
    IF m <= 1 THEN 0
    ELSE DaysBeforeMonth(y, m - 1) + DaysInMonth(y, m - 1)

\* the number of days from 1 January of EpochYear to the date of dt
ToOrdinal(dt) ==
    DaysBeforeYear(dt.year) + DaysBeforeMonth(dt.year, dt.month) + dt.day - 1

\* dt.weekday()
WeekdayOf(dt) == ToOrdinal(dt) % 7

YearOfOrdinal(n) ==
    CHOOSE y \in EpochYear..(EpochYear + RefYears + 2) :
        DaysBeforeYear(y) <= n /\ n < DaysBeforeYear(y + 1)

MonthOfOrdinal(n) ==
    LET y == YearOfOrdinal(n)
        k == n - DaysBeforeYear(y)
    IN  CHOOSE m \in 1..12 :
            DaysBeforeMonth(y, m) <= k /\ k < DaysBeforeMonth(y, m) + DaysInMonth(y, m)

\* dt + timedelta(days=k)
PlusDays(dt, k) ==
    LET n == ToOrdinal(dt) + k
        y == YearOfOrdinal(n)
        m == MonthOfOrdinal(n)
    IN  [dt EXCEPT !.year = y, !.month = m,
                   !.day = n - DaysBeforeYear(y) - DaysBeforeMonth(y, m) + 1]

\* dt.replace(hour=h, minute=mi, second=sec, microsecond=us)
ReplaceTime(dt, h, mi, sec, us) ==
    [dt EXCEPT !.hour = h, !.minute = mi, !.second = sec, !.microsecond = us]

\* dt.replace(year=y, month=m, day=d, hour=0, minute=0, second=0, microsecond=0)
ReplaceDate(dt, y, m, d) ==
    [ReplaceTime(dt, 0, 0, 0, 0) EXCEPT !.year = y, !.month = m, !.day = d]

SecondOfDay(dt) == Hours(dt.hour) + Minutes(dt.minute) + dt.second

\* a < b for two datetimes of the same timezone
DateLess(a, b) ==
    \/ ToOrdinal(a) < ToOrdinal(b)
    \/ /\ ToOrdinal(a) = ToOrdinal(b)
       /\ \/ SecondOfDay(a) < SecondOfDay(b)
          \/ /\ SecondOfDay(a) = SecondOfDay(b)
             /\ a.microsecond < b.microsecond

\* a window that ends on the last whole second of the day
DayWindowWholeSeconds(dt) ==
    [start_date |-> ReplaceTime(dt, 0, 0, 0, 0),
     end_date |-> ReplaceTime(dt, 23, 59, 59, 0)]

\* the pair (start_date, end_date) every branch builds from its target date
DayWindow(dt) ==
    [start_date |-> ReplaceTime(dt, 0, 0, 0, 0),
     end_date |-> ReplaceTime(dt, 23, 59, 59, 999999)]

----------------------------------------------------------------------------
(* The branches of _parse_smart_date *)

Raised(exc) == [exc |-> exc, target |-> << >>]
Value(dt) == [exc |-> "none", target |-> dt]

\* a roll-over test that also rolls a date that starts exactly at now
HasPassedOrIsNow(t, n) == ~DateLess(n, t)

\* target_date < now
HasPassed(t, n) == DateLess(t, n)

\* lines 562-564: the date in the year of now, a year later if it has passed;
\* either replace() raises ValueError when the date does not exist
TryExplicitDate(n, day, month) ==
    IF ~ValidDate(n.year, month, day) THEN Raised("ValueError")
    ELSE LET t == ReplaceDate(n, n.year, month, day)
         IN  IF HasPassed(t, n)
             THEN IF ValidDate(n.year + 1, month, day)
                  THEN Value([t EXCEPT !.year = n.year + 1])
                  ELSE Raised("ValueError")
             ELSE Value(t)

\* a fallback that resolves an invalid date to the day of now
InvalidDateFallbackToday(n, month) == ReplaceTime(n, 0, 0, 0, 0)

\* lines 567-569: the first day of the month, a year later if it has passed
InvalidDateFallback(n, month) ==
    LET t == ReplaceDate(n, n.year, month, 1)
    IN  IF HasPassed(t, n) THEN [t EXCEPT !.year = n.year + 1] ELSE t

\* the index in DayNames of the first day name the phrase contains, or 0
FirstDayName(str) ==
    IF \E i \in 1..7 : Contains(str, DayNames[i])
    THEN CHOOSE i \in 1..7 :
            /\ Contains(str, DayNames[i])
            /\ \A j \in 1..(i - 1) : ~Contains(str, DayNames[j])
    ELSE 0

\* a test for the end of business that 17:00 sharp does not pass
AfterBusinessHoursStrict(n) == n.hour > DefaultCloseHour

\* now.hour >= 17
AfterBusinessHours(n) == n.hour >= DefaultCloseHour

\* days_ahead with the day names counted from 1 instead of from 0
DaysAheadFromOne(str, n) ==
    LET d == (FirstDayName(str) - WeekdayOf(n)) % 7
    IN  IF d = 0 /\ (Contains(str, KwNext) \/ AfterBusinessHours(n))
        THEN 7
        ELSE d

\* lines 593-601: days_ahead for the first day name the phrase contains
DaysAhead(str, n) ==
    LET d == (FirstDayName(str) - 1 - WeekdayOf(n)) % 7
    IN  IF d = 0 /\ (Contains(str, KwNext) \/ AfterBusinessHours(n))
        THEN 7
        ELSE d

\* a chain that looks for a day name before it looks for 'next week'
BranchOfDayNameFirst(str) ==
    CASE DatePattern(str) # NoMatch -> "explicit"
      [] Contains(str, KwToday) -> "today"
      [] Contains(str, KwTomorrow) -> "tomorrow"
      [] FirstDayName(str) # 0 -> "weekday"
      [] Contains(str, KwNextWeek) -> "next week"
      [] OTHER -> "default"

\* the if/elif chain of lines 545-609: the branch that runs
BranchOf(str) ==
    CASE DatePattern(str) # NoMatch -> "explicit"
      [] Contains(str, KwToday) -> "today"
      [] Contains(str, KwTomorrow) -> "tomorrow"
      [] Contains(str, KwNextWeek) -> "next week"
      [] FirstDayName(str) # 0 -> "weekday"
      [] OTHER -> "default"

\* the body of the outer try block: the target date of the branch, and the
\* exception the explicit-date branch handled on the way
TargetDate(str, n) ==
    LET b == BranchOf(str)
        m == DatePattern(str)
    IN  CASE b = "explicit" ->
               LET r == TryExplicitDate(n, m.day, m.month)
               IN  IF r.exc = "ValueError"
                   THEN [exc |-> r.exc, handler |-> "inner",
                         target |-> InvalidDateFallback(n, m.month)]
                   ELSE [exc |-> "none", handler |-> "none", target |-> r.target]
          [] b = "tomorrow" ->
               [exc |-> "none", handler |-> "none", target |-> PlusDays(n, 1)]
          [] b = "next week" ->
               [exc |-> "none", handler |-> "none", target |-> PlusDays(n, 7)]
          [] b = "weekday" ->
               [exc |-> "none", handler |-> "none",
                target |-> PlusDays(n, DaysAhead(str, n))]
          [] OTHER ->
               [exc |-> "none", handler |-> "none", target |-> n]

\* _parse_smart_date: the returned pair and what happened on the way
SmartDate(pref, n) ==
    LET str == Strip(Lower(pref))
        t == TargetDate(str, n)
    IN  [range |-> DayWindow(t.target),
         trace |-> [branch |-> BranchOf(str), exc |-> t.exc,
                    handler |-> t.handler]]

----------------------------------------------------------------------------
(* Inputs of the resolver *)

Phrases ==
    { <<"2", "9", "t", "h", " ", "J", "u", "n", "e">>,
      <<"J", "u", "n", "e", " ", "2", "9">>,
      <<"2", "9", " ", "j", "u", "n", "e">>,
      <<"2", "9", " ", "f", "e", "b">>,
      <<"3", "0", " ", "f", "e", "b">>,
      <<"0", " ", "j", "u", "n", "e">>,
      <<"3", "1", " ", "j", "u", "n", "e">>,
      <<"1", "s", "t", " ", "j", "a", "n">>,
      <<"3", "1", " ", "d", "e", "c">>,
      <<"1", "5", " ", "j", "u", "l", " ", "t", "o", "d", "a", "y">>,
      <<"1", "0", "0", " ", "j", "u", "n", "e">>,
      <<"3", "r", "d", " ", " ", "m", "a", "r">>,
      <<"2", "n", "d", " ", "o", "f", " ", "m", "a", "r", "c", "h">>,
      <<"t", "o", "d", "a", "y">>,
      <<"t", "o", "m", "o", "r", "r", "o", "w">>,
      <<"n", "e", "x", "t", " ", "w", "e", "e", "k">>,
      <<"t", "o", "d", "a", "y", " ", "o", "r", " ", "t", "o", "m", "o", "r", "r", "o", "w">>,
      <<"m", "o", "n", "d", "a", "y">>,
      <<"n", "e", "x", "t", " ", "m", "o", "n", "d", "a", "y">>,
      <<"f", "r", "i", "d", "a", "y">>,
      <<" ", "N", "e", "x", "t", " ", "F", "r", "i", "d", "a", "y", " ">>,
      <<"n", "e", "x", "t", " ", "w", "e", "e", "k", " ", "f", "r", "i", "d", "a", "y">>,
      <<"t", "o", "m", "o", "r", "r", "o", "w", " ", "o", "r", " ", "m", "o", "n", "d", "a", "y">>,
      <<"s", "u", "n", "d", "a", "y", " ", "o", "r", " ", "t", "u", "e", "s", "d", "a", "y">>,
      <<"w", "e", "d", "n", "e", "s", "d", "a", "y">>,
      <<"t", "h", "u", "r", "s", "d", "a", "y">>,
      <<"s", "a", "t", "u", "r", "d", "a", "y">>,
      <<"w", "h", "e", "n", "e", "v", "e", "r">> }

Timezones == {"UTC", "Asia/Kolkata"}

RefDays ==
    { <<1, 1>>, <<2, 28>>, <<2, 29>>, <<3, 1>>, <<6, 1>>, <<6, 23>>, <<6, 24>>,
      <<6, 25>>, <<6, 26>>, <<6, 27>>, <<6, 28>>, <<6, 29>>, <<6, 30>>,
      <<7, 15>>, <<12, 31>> }

RefTimes ==
    { <<0, 0, 0, 0>>, <<0, 0, 0, 1>>, <<10, 30, 0, 0>>, <<16, 59, 59, 999999>>,
      <<17, 0, 0, 0>>, <<18, 0, 0, 0>> }

\* the values datetime.now(self.tz) can take
ReferenceTimes ==
    { [year |-> y, month |-> md[1], day |-> md[2],
       hour |-> t[1], minute |-> t[2], second |-> t[3], microsecond |-> t[4],
       tzinfo |-> tz] :
        y \in EpochYear..(EpochYear + RefYears - 1),
        md \in RefDays, t \in RefTimes, tz \in Timezones }

\* no find_free_slots call is under way
FinderIdle ==
    /\ pc = "idle"
    /\ service = "None"
    /\ credentials = "None"
    /\ start_date = 0
    /\ end_date = 0
    /\ duration_minutes = DefaultDuration
    /\ business_hours = <<DefaultOpenHour, DefaultCloseHour>>
    /\ busy_periods = << >>
    /\ busy_times = << >>
    /\ current_time = 0
    /\ end_business_day = 0
    /\ free_slots = << >>
    /\ result = << >>
    /\ returned = << >>

ResolverInit ==
    /\ FinderIdle
    /\ ApiIdle
    /\ OthersIdle
    /\ rpc = "start"
    /\ date_preference \in Phrases
    /\ now \in { n \in ReferenceTimes : ValidDate(n.year, n.month, n.day) }
    /\ parsed_range = << >>
    /\ parse_trace = << >>

\* lines 529-622: one call of _parse_smart_date
ParseSmartDate ==
    /\ rpc = "start"
    /\ parsed_range' = SmartDate(date_preference, now).range
    /\ parse_trace' = SmartDate(date_preference, now).trace
    /\ rpc' = "done"
    /\ UNCHANGED <<date_preference, now>>
    /\ UNCHANGED finderVars
    /\ UNCHANGED serviceVars
    /\ UNCHANGED apiVars
    /\ UNCHANGED <<scriptVars, authVars>>

ResolverNext == ParseSmartDate

ResolverSpec == ResolverInit /\ [][ResolverNext]_vars

----------------------------------------------------------------------------
(* Timezones of the smart agent.  A timezone code is the sequence of its   *)
(* characters; a tzinfo is [zone, utcoffset] with the offset in minutes,   *)
(* as the pytz tzinfo that datetime.now(tz) attaches: replace() and        *)
(* timedelta arithmetic keep it as it is.                                  *)

\* s.upper() of one character
UpperChar(c) ==
    IF \E i \in 1..26 : LowerCase[i] = c
    THEN UpperCase[CHOOSE i \in 1..26 : LowerCase[i] = c]
    ELSE c

\* str.upper()
Upper(str) == [i \in 1..Len(str) |-> UpperChar(str[i])]

GMT == <<"G", "M", "T">>
IST == <<"I", "S", "T">>
EST == <<"E", "S", "T">>

\* timezone_map of _get_timezone_object
TimezoneMap ==
    << <<GMT, "UTC">>,
       <<<<"U", "T", "C">>, "UTC">>,
       <<IST, "Asia/Kolkata">>,
       <<<<"A", "S", "T">>, "Canada/Atlantic">>,
       <<EST, "US/Eastern">>,
       <<<<"P", "S", "T">>, "US/Pacific">>,
       <<<<"C", "S", "T">>, "US/Central">>,
       <<<<"M", "S", "T">>, "US/Mountain">>,
       <<<<"A", "E", "S", "T">>, "Australia/Sydney">>,
       <<<<"J", "S", "T">>, "Asia/Tokyo">>,
       <<<<"C", "E", "T">>, "Europe/Paris">> >>

\* timezone_map.get(timezone_str.upper(), pytz.UTC)
GetTimezoneObject(timezone_str) ==
    LET key == Upper(timezone_str)
    IN  IF \E i \in 1..Len(TimezoneMap) : TimezoneMap[i][1] = key
        THEN TimezoneMap[CHOOSE i \in 1..Len(TimezoneMap) :
                            TimezoneMap[i][1] = key][2]
        ELSE "UTC"

\* the zones of the map: offset in minutes in standard and in summer time,
\* and the rule summer time follows
ZoneRules ==
    [z \in {"UTC", "Asia/Kolkata", "Canada/Atlantic", "US/Eastern",
            "US/Pacific", "US/Central", "US/Mountain", "Australia/Sydney",
            "Asia/Tokyo", "Europe/Paris"} |->
        CASE z = "UTC" -> [std |-> 0, dst |-> 0, rule |-> "none"]
          [] z = "Asia/Kolkata" -> [std |-> 330, dst |-> 330, rule |-> "none"]
          [] z = "Canada/Atlantic" -> [std |-> -240, dst |-> -180, rule |-> "us"]
          [] z = "US/Eastern" -> [std |-> -300, dst |-> -240, rule |-> "us"]
          [] z = "US/Pacific" -> [std |-> -480, dst |-> -420, rule |-> "us"]
          [] z = "US/Central" -> [std |-> -360, dst |-> -300, rule |-> "us"]
          [] z = "US/Mountain" -> [std |-> -420, dst |-> -360, rule |-> "us"]
          [] z = "Australia/Sydney" -> [std |-> 600, dst |-> 660, rule |-> "au"]
          [] z = "Asia/Tokyo" -> [std |-> 540, dst |-> 540, rule |-> "none"]
          [] z = "Europe/Paris" -> [std |-> 60, dst |-> 120, rule |-> "eu"]]

\* the day number of the given date
OrdinalOf(y, m, d) == DaysBeforeYear(y) + DaysBeforeMonth(y, m) + d - 1

\* the day of the month of the k-th Sunday of month m
NthSunday(y, m, k) ==
    (CHOOSE d \in 1..7 : OrdinalOf(y, m, d) % 7 = 6) + 7 * (k - 1)

\* the day of the month of the last Sunday of month m
LastSunday(y, m) ==
    CHOOSE d \in (DaysInMonth(y, m) - 6)..DaysInMonth(y, m) :
        OrdinalOf(y, m, d) % 7 = 6

\* minutes from the epoch to a naive UTC datetime, its seconds dropped
MinuteOf(dt) == ToOrdinal(dt) * 1440 + dt.hour * 60 + dt.minute

\* whether the zone is in summer time at the UTC instant utc
InSummerTime(zone, utc) ==
    LET r == ZoneRules[zone]
        y == utc.year
        t == MinuteOf(utc)
    IN  CASE r.rule = "us" ->
               /\ t >= OrdinalOf(y, 3, NthSunday(y, 3, 2)) * 1440 + 120 - r.std
               /\ t < OrdinalOf(y, 11, NthSunday(y, 11, 1)) * 1440 + 120 - r.dst
          [] r.rule = "eu" ->
               /\ t >= OrdinalOf(y, 3, LastSunday(y, 3)) * 1440 + 60
               /\ t < OrdinalOf(y, 10, LastSunday(y, 10)) * 1440 + 60
          [] r.rule = "au" ->
               \/ t >= OrdinalOf(y, 10, NthSunday(y, 10, 1)) * 1440 + 120 - r.std
               \/ t < OrdinalOf(y, 4, NthSunday(y, 4, 1)) * 1440 + 180 - r.dst
          [] OTHER -> FALSE

\* tz.utcoffset at the UTC instant utc, in minutes
UtcOffset(zone, utc) ==
    IF InSummerTime(zone, utc) THEN ZoneRules[zone].dst ELSE ZoneRules[zone].std

\* dt + timedelta(minutes=k)
PlusMinutes(dt, k) ==
    LET total == dt.hour * 60 + dt.minute + k
        moved == PlusDays(dt, total \div 1440)
    IN  [moved EXCEPT !.hour = (total % 1440) \div 60,
                      !.minute = (total % 1440) % 60]

\* datetime.now(tz) when the clock shows the UTC instant utc
Now(zone, utc) ==
    LET off == UtcOffset(zone, utc)
    IN  [PlusMinutes(utc, off) EXCEPT
            !.tzinfo = [zone |-> zone, utcoffset |-> off]]

\* dt.astimezone(pytz.UTC).replace(tzinfo=None)
AsNaiveUtc(dt) ==
    [PlusMinutes(dt, 0 - dt.tzinfo.utcoffset) EXCEPT !.tzinfo = "None"]

\* a naive UTC datetime as find_free_slots counts time, in whole seconds
ToSeconds(dt) == Days(ToOrdinal(dt)) + SecondOfDay(dt)

----------------------------------------------------------------------------
(* The /chat endpoint of backend/api/app.py and the agent it shares among  *)
(* all sessions.  The handler is a coroutine without an await, so the      *)
(* event loop serves one request from its first line to its last before it *)
(* starts the next: apc is the position of the one request under way.      *)

\* a UTC instant of the server's clock
Instant(y, m, d, h, mi) ==
    [year |-> y, month |-> m, day |-> d, hour |-> h, minute |-> mi,
     second |-> 0, microsecond |-> 0, tzinfo |-> "None"]

\* the instants the clock passes through: a Thursday morning and the evening
\* of the Saturday after it
Instants ==
    << Instant(EpochYear + 1, 6, 26, 10, 0),
       Instant(EpochYear + 1, 6, 28, 20, 0) >>

\* the three attributes __init__ and set_timezone assign
Agent(timezone, utc) ==
    [timezone |-> timezone,
     tz |-> GetTimezoneObject(timezone),
     current_time |-> Now(GetTimezoneObject(timezone), utc)]

\* agent = SmartTailorTalkAgent(OPENAI_KEY, timezone="GMT") at start-up
ConstructedAgent == Agent(GMT, Instants[1])

\* message.session_id is an Optional[str]: the sequence of its values, none
\* for None and one for a string
NoSessionId == << >>

\* session_id = "" in the request
EmptySessionId == << << >> >>

\* str(uuid.uuid4()): the n-th identifier generated
Uuid4(n) == <<"u", "u", "i", "d", Digits[n + 1]>>

\* the user messages clients send, each with the timezone code its client
\* is set to
ClientMessages ==
    { <<"hello", GMT>>,
      <<"any slot today?", GMT>>,
      <<"any slot today?", IST>>,
      <<"switch to IST", GMT>>,
      <<"book the first one", EST>>,
      <<"what is on today?", GMT>>,
      <<"did it book?", GMT>> }

Today == <<"t", "o", "d", "a", "y">>
Tomorrow == <<"t", "o", "m", "o", "r", "r", "o", "w">>

\* the tool the LLM calls for a message, as the system prompt directs it
ToolCallFor(msg) ==
    CASE msg = "any slot today?" ->
           [tool |-> "search_available_slots", date_preference |-> Today]
      [] msg = "switch to IST" ->
           [tool |-> "change_timezone", new_timezone |-> IST]
      [] msg = "book the first one" ->
           [tool |-> "book_meeting"]
      [] msg = "what is on today?" ->
           [tool |-> "get_calendar_events", date_preference |-> Today]
      [] msg = "did it book?" ->
           [tool |-> "verify_meeting_exists", date_preference |-> Tomorrow]
      [] OTHER -> [tool |-> "none"]

\* the state process_message starts from when the session has none
NewState(timezone) ==
    [conversation_history |-> << >>,
     available_slots |-> << >>,
     session_context |-> [timezone |-> timezone, last_update |-> Null]]

\* sessions.get(session_id)
SessionsGet(sid) == IF sid \in DOMAIN sessions THEN sessions[sid] ELSE Null

\* sessions[session_id] = result
SessionsPut(sid, st) ==
    [k \in DOMAIN sessions \cup {sid} |-> IF k = sid THEN st ELSE sessions[k]]

\* the user messages of session sid that the agent has processed since the
\* session was last cleared
SentOf(sid) == IF sid \in DOMAIN sent THEN sent[sid] ELSE << >>

\* the agent's attributes had only the requests of session sid been served
SoloOf(sid) == IF sid \in DOMAIN solo THEN solo[sid] ELSE ConstructedAgent

\* what get_availability returns in this deployment: the demo periods
\* without a service handle, and with one the events of a calendar that
\* has none
CalendarAnswers(svc, sd) ==
    IF svc = "None" THEN {DemoBusyPeriods(sd)} ELSE {<< >>}

\* the process after start-up: the agent constructed, or None after an
\* exception in its constructor, and the calendar service as authenticate()
\* left it
ApiInit ==
    /\ ResolverIdle
    /\ OthersIdle
    /\ pc = "idle"
    /\ \E st \in ServiceStates :
          service = st.service /\ credentials = st.credentials
    /\ start_date = 0
    /\ end_date = 0
    /\ duration_minutes = DefaultDuration
    /\ business_hours = <<DefaultOpenHour, DefaultCloseHour>>
    /\ busy_periods = << >>
    /\ busy_times = << >>
    /\ current_time = 0
    /\ end_business_day = 0
    /\ free_slots = << >>
    /\ result = << >>
    /\ returned = << >>
    /\ clock = Instants[1]
    /\ agent \in {Null, ConstructedAgent}
    /\ sessions = << >>
    /\ apc = "idle"
    /\ message = Null
    /\ session_id = NoSessionId
    /\ state = Null
    /\ response = Null
    /\ issued = 0
    /\ handled = 0
    /\ sent = << >>
    /\ solo = << >>

\* the requests a client can send now: without a session id, with an empty
\* one, or with one a response has carried
Requests ==
    { [message |-> m[1], session_id |-> s, timezone |-> m[2]] :
        m \in ClientMessages,
        s \in {NoSessionId, EmptySessionId}
                 \cup {<<Uuid4(i)>> : i \in 1..issued} }

\* bool(message.session_id): None and the empty string are false
Truthy(opt) == opt # NoSessionId /\ opt[1] # << >>

\* line 102 with every session id sent replaced by a generated one
SessionIdAlwaysFresh(opt, n) == Uuid4(n + 1)

\* line 102: message.session_id or str(uuid.uuid4()) when the request
\* carries session id opt and n identifiers have been generated
SessionIdAfter(opt, n) == IF Truthy(opt) THEN opt[1] ELSE Uuid4(n + 1)

SessionIdOf(req) == SessionIdAfter(req.session_id, issued)

IssuedAfter(req) == IF Truthy(req.session_id) THEN issued ELSE issued + 1

\* time passes between two requests
Tick ==
    /\ apc = "idle"
    /\ \E i \in 1..(Len(Instants) - 1) :
          clock = Instants[i] /\ clock' = Instants[i + 1]
    /\ UNCHANGED <<agent, sessions, apc, message, session_id, state, response,
                   issued, handled, sent, solo>>
    /\ UNCHANGED <<finderVars, serviceVars, resolverVars>>
    /\ UNCHANGED <<scriptVars, authVars>>

\* lines 102-114: without an agent the request is answered at once
ChatWithoutAgent ==
    /\ apc = "idle"
    /\ handled < MaxRequests
    /\ agent = Null
    /\ \E req \in Requests :
          /\ message' = req
          /\ session_id' = SessionIdOf(req)
          /\ issued' = IssuedAfter(req)
          /\ response' =
                [session_id |-> SessionIdOf(req),
                 conversation_history |->
                    << [role |-> "user", content |-> req.message],
                       [role |-> "assistant", content |-> "configure"] >>,
                 current_step |-> "configuration_needed"]
    /\ handled' = handled + 1
    /\ UNCHANGED <<clock, agent, sessions, apc, state, sent, solo>>
    /\ UNCHANGED <<finderVars, serviceVars, resolverVars>>
    /\ UNCHANGED <<scriptVars, authVars>>

\* lines 102 and 116-137: without credentials and without a service handle the
\* request is answered with the link to connect the calendar
ChatWithoutCalendar ==
    /\ apc = "idle"
    /\ handled < MaxRequests
    /\ agent # Null
    /\ service = "None" /\ credentials = "None"
    /\ \E req \in Requests :
          /\ message' = req
          /\ session_id' = SessionIdOf(req)
          /\ issued' = IssuedAfter(req)
          /\ response' =
                [session_id |-> SessionIdOf(req),
                 conversation_history |->
                    << [role |-> "user", content |-> req.message],
                       [role |-> "assistant", content |-> "connect"] >>,
                 current_step |-> "calendar_connection_required"]
    /\ handled' = handled + 1
    /\ UNCHANGED <<clock, agent, sessions, apc, state, sent, solo>>
    /\ UNCHANGED <<finderVars, serviceVars, resolverVars>>
    /\ UNCHANGED <<scriptVars, authVars>>

\* lines 140-142 with set_timezone called for every request
AfterTimezoneRefresh(a, timezone) ==
    Agent(IF timezone # << >> THEN timezone ELSE a.timezone, clock)

\* the agent after lines 140-142 have looked at the timezone of the request
AfterTimezoneCheck(a, timezone) ==
    IF timezone # << >> /\ timezone # a.timezone
    THEN Agent(timezone, clock)
    ELSE a

\* app.py lines 102-148 and process_message lines 750-770: the timezone is
\* set, the state of the session fetched or made, and the user message
\* appended; the LLM is about to be invoked
ChatBegin ==
    /\ apc = "idle"
    /\ handled < MaxRequests
    /\ agent # Null
    /\ ~(service = "None" /\ credentials = "None")
    /\ \E req \in Requests :
          LET sid == SessionIdOf(req)
              a == AfterTimezoneCheck(agent, req.timezone)
              st == IF SessionsGet(sid) = Null
                    THEN NewState(a.timezone) ELSE SessionsGet(sid)
          IN  /\ message' = req
              /\ session_id' = sid
              /\ issued' = IssuedAfter(req)
              /\ agent' = a
              /\ state' = [st EXCEPT !.conversation_history =
                              Append(@, [role |-> "user",
                                         content |-> req.message])]
              /\ solo' = [k \in DOMAIN solo \cup {sid} |->
                            IF k = sid
                            THEN AfterTimezoneCheck(SoloOf(sid), req.timezone)
                            ELSE solo[k]]
    /\ apc' = "invoke"
    /\ UNCHANGED <<clock, sessions, response, handled, sent>>
    /\ UNCHANGED <<finderVars, serviceVars, resolverVars>>
    /\ UNCHANGED <<scriptVars, authVars>>

\* the tool call the LLM makes for the message under way
Call == ToolCallFor(message.message)

\* search_available_slots lines 124-143: the date is resolved, the window
\* converted to naive UTC and handed to find_free_slots
ToolSearchAvailableSlots ==
    /\ apc = "invoke"
    /\ Call.tool = "search_available_slots"
    /\ \E parsed \in {SmartDate(Call.date_preference, agent.current_time)} :
       \E start_utc \in {AsNaiveUtc(parsed.range.start_date)} :
       \E end_utc \in {AsNaiveUtc(parsed.range.end_date)} :
          /\ date_preference' = Call.date_preference
          /\ now' = agent.current_time
          /\ parsed_range' = parsed.range
          /\ parse_trace' = parsed.trace
          /\ start_date' = ToSeconds(start_utc)
          /\ end_date' = ToSeconds(end_utc)
          /\ busy_periods' \in CalendarAnswers(service, ToSeconds(start_utc))
    /\ rpc' = "done"
    /\ duration_minutes' = DefaultDuration
    /\ business_hours' = <<DefaultOpenHour, DefaultCloseHour>>
    /\ pc' = "start"
    /\ apc' = "search"
    /\ UNCHANGED <<busy_times, current_time, end_business_day, free_slots,
                   result, returned>>
    /\ UNCHANGED <<clock, agent, sessions, message, session_id, state,
                   response, issued, handled, sent, solo>>
    /\ UNCHANGED serviceVars
    /\ UNCHANGED <<scriptVars, authVars>>

\* search_available_slots lines 145-201: find_free_slots has returned and the
\* tool hands the slots to the LLM
ToolSearchReturn ==
    /\ apc = "search"
    /\ pc = "done"
    /\ apc' = "reply"
    /\ UNCHANGED <<clock, agent, sessions, message, session_id, state,
                   response, issued, handled, sent, solo>>
    /\ UNCHANGED <<finderVars, serviceVars, resolverVars>>
    /\ UNCHANGED <<scriptVars, authVars>>

\* change_timezone lines 280-300: the tool calls set_timezone
ToolChangeTimezone ==
    /\ apc = "invoke"
    /\ Call.tool = "change_timezone"
    /\ agent' = Agent(Call.new_timezone, clock)
    /\ solo' = [solo EXCEPT ![session_id] = Agent(Call.new_timezone, clock)]
    /\ apc' = "reply"
    /\ UNCHANGED <<clock, sessions, message, session_id, state, response,
                   issued, handled, sent>>
    /\ UNCHANGED <<finderVars, serviceVars, resolverVars>>
    /\ UNCHANGED <<scriptVars, authVars>>

\* book_meeting lines 212-257: create_event is called on the calendar
\* service; no attribute of the agent is assigned
ToolBookMeeting ==
    /\ apc = "invoke"
    /\ Call.tool = "book_meeting"
    /\ apc' = "reply"
    /\ UNCHANGED <<clock, agent, sessions, message, session_id, state,
                   response, issued, handled, sent, solo>>
    /\ UNCHANGED <<finderVars, serviceVars, resolverVars>>
    /\ UNCHANGED <<scriptVars, authVars>>

\* get_calendar_events (line 315) and verify_meeting_exists (line 461): the
\* date is resolved and the events of the window are listed
ToolListEvents ==
    /\ apc = "invoke"
    /\ Call.tool \in {"get_calendar_events", "verify_meeting_exists"}
    /\ \E parsed \in {SmartDate(Call.date_preference, agent.current_time)} :
          /\ date_preference' = Call.date_preference
          /\ now' = agent.current_time
          /\ parsed_range' = parsed.range
          /\ parse_trace' = parsed.trace
    /\ rpc' = "done"
    /\ apc' = "reply"
    /\ UNCHANGED <<clock, agent, sessions, message, session_id, state,
                   response, issued, handled, sent, solo>>
    /\ UNCHANGED <<finderVars, serviceVars>>
    /\ UNCHANGED <<scriptVars, authVars>>

\* the entry process_message appends for the assistant: the output of the
\* LLM (lines 781-786), or the apology of the except branch (lines 792-796)
AssistantEntry(ok) ==
    [role |-> "assistant", content |-> IF ok THEN "output" ELSE "apology"]

\* process_message lines 772-798 and app.py lines 151-167: invoke returns
\* after the tool call, or raises before or after it; the assistant entry is
\* appended, the state stored under the session id and the response sent
ChatRespond ==
    /\ \E ok \in BOOLEAN :
          LET hist == Append(state.conversation_history, AssistantEntry(ok))
              st == [state EXCEPT
                        !.conversation_history = hist,
                        !.session_context =
                            IF ok
                            THEN [timezone |-> agent.timezone,
                                  last_update |-> agent.current_time]
                            ELSE @]
          IN  /\ \/ apc = "reply"
                 \/ apc = "invoke" /\ (Call.tool = "none" \/ ~ok)
              /\ state' = st
              /\ sessions' = SessionsPut(session_id, st)
              /\ response' =
                    [session_id |-> session_id,
                     conversation_history |-> hist,
                     current_step |-> "smart_conversation"]
    /\ sent' = [k \in DOMAIN sent \cup {session_id} |->
                  IF k = session_id
                  THEN Append(SentOf(session_id), message.message)
                  ELSE sent[k]]
    /\ handled' = handled + 1
    /\ apc' = "idle"
    /\ UNCHANGED <<clock, agent, message, session_id, issued, solo>>
    /\ UNCHANGED <<finderVars, serviceVars, resolverVars>>
    /\ UNCHANGED <<scriptVars, authVars>>

\* DELETE /sessions/{session_id}, lines 173-178, for a stored session
ClearSession ==
    /\ apc = "idle"
    /\ handled < MaxRequests
    /\ \E sid \in DOMAIN sessions :
          /\ sessions' = [k \in DOMAIN sessions \ {sid} |-> sessions[k]]
          /\ sent' = [k \in DOMAIN sent \ {sid} |-> sent[k]]
    /\ handled' = handled + 1
    /\ UNCHANGED <<clock, agent, apc, message, session_id, state, response,
                   issued, solo>>
    /\ UNCHANGED <<finderVars, serviceVars, resolverVars>>
    /\ UNCHANGED <<scriptVars, authVars>>

ApiNext ==
    \/ Tick
    \/ ChatWithoutAgent
    \/ ChatWithoutCalendar
    \/ ChatBegin
    \/ ToolSearchAvailableSlots
    \/ Prepare
    \/ SkipWeekend
    \/ SkipBusy
    \/ EmitSlot
    \/ RetryLater
    \/ Return
    \/ ToolSearchReturn
    \/ ToolChangeTimezone
    \/ ToolBookMeeting
    \/ ToolListEvents
    \/ ChatRespond
    \/ ClearSession

ApiSpec == ApiInit /\ [][ApiNext]_vars

----------------------------------------------------------------------------
(* The scripted agent (backend/agents/lang_agent_basic.py, TailorTalkAgent). *)
(* An entry of conversation_history is [role, content]; the content is free  *)
(* text that no branch reads, and the model keeps of it which reply of the   *)
(* agent it is, and for a user entry only that it is the user's text.        *)

\* the words _handle_final_confirmation takes for a confirmation (line 289)
ConfirmWords ==
    { <<"y", "e", "s">>,
      <<"c", "o", "n", "f", "i", "r", "m">>,
      <<"b", "o", "o", "k">>,
      <<"s", "c", "h", "e", "d", "u", "l", "e">>,
      <<"o", "k", "a", "y">>,
      <<"o", "k">> }

\* booking_keywords of _handle_completion
BookingKeywords ==
    { <<"b", "o", "o", "k">>,
      <<"s", "c", "h", "e", "d", "u", "l", "e">>,
      <<"m", "e", "e", "t", "i", "n", "g">>,
      <<"a", "p", "p", "o", "i", "n", "t", "m", "e", "n", "t">>,
      <<"a", "n", "o", "t", "h", "e", "r">>,
      <<"m", "o", "r", "e">>,
      <<"a", "g", "a", "i", "n">>,
      <<"n", "e", "w">>,
      <<"y", "e", "s">>,
      <<"t", "o", "d", "a", "y">>,
      <<"t", "o", "m", "o", "r", "r", "o", "w">>,
      <<"m", "o", "n", "d", "a", "y">>,
      <<"t", "u", "e", "s", "d", "a", "y">>,
      <<"w", "e", "d", "n", "e", "s", "d", "a", "y">>,
      <<"t", "h", "u", "r", "s", "d", "a", "y">>,
      <<"f", "r", "i", "d", "a", "y">> }

\* goodbye_keywords of _handle_completion
GoodbyeKeywords ==
    { <<"b", "y", "e">>,
      <<"g", "o", "o", "d", "b", "y", "e">>,
      <<"t", "h", "a", "n", "k", "s">>,
      <<"t", "h", "a", "n", "k", " ", "y", "o", "u">>,
      <<"n", "o">>,
      <<"n", "o", "t", "h", "i", "n", "g">>,
      <<"d", "o", "n", "e">>,
      <<"e", "x", "i", "t">>,
      <<"q", "u", "i", "t">> }

KwThisWeek == <<"t", "h", "i", "s", " ", "w", "e", "e", "k">>
KwWeek == <<"w", "e", "e", "k">>

\* any(word in user_input for word in ws)
ContainsAny(str, ws) == \E w \in ws : Contains(str, w)

\* the user inputs of the model
UserInputs ==
    { KwTomorrow,
      KwToday,
      DayNames[7],
      KwNextWeek,
      KwThisWeek,
      <<"2">>,
      <<"y", "e", "s">>,
      <<"t", "h", "a", "n", "k", "s">> }

\* the naive local times datetime.now() returns during a conversation:
\* Thursday 26 June 2025 10:00, the same day at 18:30, and Friday 27 June
\* a quarter of a second past 16:00
LocalTime(y, m, d, h, mi, us) ==
    [year |-> y, month |-> m, day |-> d, hour |-> h, minute |-> mi,
     second |-> 0, microsecond |-> us, tzinfo |-> "None"]

LocalTimes ==
    { LocalTime(EpochYear + 1, 6, 26, 10, 0, 0),
      LocalTime(EpochYear + 1, 6, 26, 18, 30, 0),
      LocalTime(EpochYear + 1, 6, 27, 16, 0, 250000) }

\* max(a, b) of two naive datetimes
MaxDate(a, b) == IF DateLess(a, b) THEN b ELSE a

\* lines 74-78: the 'today' rule
TodayWindow(n) ==
    [start_date |-> MaxDate(n, ReplaceTime(n, DefaultOpenHour, 0, 0, 0)),
     end_date |-> ReplaceTime(n, DefaultCloseHour, 0, 0, 0)]

\* 09:00 to 17:00 of the day of target
BusinessDay(target) ==
    [start_date |-> ReplaceTime(target, DefaultOpenHour, 0, 0, 0),
     end_date |-> ReplaceTime(target, DefaultCloseHour, 0, 0, 0)]

\* lines 86-96: days to the next occurrence of the day named first in the
\* order Monday to Sunday
ScriptDaysAhead(str, n) ==
    LET ahead == (FirstDayName(str) - 1) - WeekdayOf(n)
    IN  IF ahead <= 0 THEN ahead + 7 ELSE ahead

\* _parse_date_preference, lines 61-117, when datetime.now() returns n
ParseDatePreference(input, n) ==
    LET str == Lower(input)
    IN  IF Contains(str, KwTomorrow) THEN BusinessDay(PlusDays(n, 1))
        ELSE IF Contains(str, KwToday) THEN TodayWindow(n)
        ELSE IF FirstDayName(str) # 0
             THEN BusinessDay(PlusDays(n, ScriptDaysAhead(str, n)))
        ELSE IF Contains(str, KwNextWeek)
             THEN [start_date |-> PlusDays(n, 7), end_date |-> PlusDays(n, 12)]
        ELSE IF Contains(str, KwThisWeek) \/ Contains(str, KwWeek)
             THEN LET s == IF n.hour >= DefaultCloseHour
                           THEN PlusDays(n, 1) ELSE n
                  IN  [start_date |-> s, end_date |-> PlusDays(s, 5)]
        ELSE [start_date |-> n, end_date |-> PlusDays(n, 7)]

\* number of slots _handle_availability_check keeps
MaxOffered == 5

\* one entry of conversation_history
Entry(role, content) == [role |-> role, content |-> content]

\* the assistant's reply is appended to the history
WithReply(st, content) ==
    [st EXCEPT !.conversation_history = Append(@, Entry("assistant", content))]

\* lines 123-144 with the user's first message kept in the history
FirstStateKeepingInput(input) ==
    [conversation_history |-> <<Entry("user", "text"),
                                Entry("assistant", "greeting")>>,
     current_step |-> "greeting",
     user_input |-> input,
     extracted_info |-> [title |-> "Meeting", duration_minutes |-> 60],
     available_slots |-> << >>,
     selected_slot |-> Null,
     error_message |-> "None",
     needs_clarification |-> FALSE,
     waiting_for_user |-> TRUE]

\* lines 123-144: the state the first call returns
FirstState(input) ==
    [conversation_history |-> <<Entry("assistant", "greeting")>>,
     current_step |-> "greeting",
     user_input |-> input,
     extracted_info |-> [title |-> "Meeting", duration_minutes |-> 60],
     available_slots |-> << >>,
     selected_slot |-> Null,
     error_message |-> "None",
     needs_clarification |-> FALSE,
     waiting_for_user |-> TRUE]

\* lines 147-153: the input is stored and appended to the history
WithUserMessage(st, input) ==
    [st EXCEPT !.user_input = input,
               !.conversation_history = Append(@, Entry("user", "text"))]

\* lines 156-179: the handler process_message calls for a step
Dispatch(step) ==
    CASE step = "greeting" -> "_handle_intent_recognition"
      [] step = "intent_recognition" -> "_handle_date_extraction"
      [] step = "date_extraction" -> "_handle_availability_check"
      [] step = "availability_check" -> "_handle_slot_selection"
      [] step = "slot_selection" -> "_handle_final_confirmation"
      [] step = "final_confirmation" -> "_handle_booking_creation"
      [] step = "completion" -> "_handle_completion"
      [] step = "ended" -> "ended"
      [] OTHER -> "_handle_completion"

\* _handle_intent_recognition, lines 180-190
IntentRecognition(st) ==
    [WithReply(st, "ask_date") EXCEPT
        !.current_step = "intent_recognition",
        !.waiting_for_user = TRUE]

\* _handle_date_extraction, line 195
DateExtraction(st) ==
    [st EXCEPT !.extracted_info =
        [title |-> @.title, duration_minutes |-> @.duration_minutes,
         date_preference |-> st.user_input]]

\* lines 202-204: the input, or the stored preference when the input is empty
DateInput(st) ==
    IF st.user_input = << >>
         /\ "date_preference" \in DOMAIN st.extracted_info
         /\ st.extracted_info.date_preference # << >>
    THEN st.extracted_info.date_preference
    ELSE st.user_input

\* free_slots[:5]
FirstFive(slots) == SubSeq(slots, 1, Min(MaxOffered, Len(slots)))

\* lines 216-250 after find_free_slots returned free
AvailabilityFound(st, free) ==
    [WithReply(st, IF free # << >> THEN "slots" ELSE "no_slots") EXCEPT
        !.available_slots = FirstFive(free),
        !.current_step = "availability_check",
        !.waiting_for_user = TRUE]

\* lines 240-250 after find_free_slots raised
AvailabilityRaised(st) ==
    [WithReply(st, "trouble") EXCEPT
        !.error_message = "error",
        !.current_step = "availability_check",
        !.waiting_for_user = TRUE]

\* lines 257-261: the number of the slot the input names, 0 for none
SelectedNumber(str) ==
    IF \E i \in 1..MaxOffered : Contains(str, <<Digits[i + 1]>>)
    THEN CHOOSE i \in 1..MaxOffered :
            /\ Contains(str, <<Digits[i + 1]>>)
            /\ \A j \in 1..(i - 1) : ~Contains(str, <<Digits[j + 1]>>)
    ELSE 0

\* whether _handle_slot_selection selects a slot
Selects(st) ==
    /\ SelectedNumber(Lower(st.user_input)) # 0
    /\ SelectedNumber(Lower(st.user_input)) <= Len(st.available_slots)

\* _handle_slot_selection with a new start when there is nothing to choose
\* from
SlotSelectionRestarting(st) ==
    IF Selects(st)
    THEN [WithReply(st, "confirm") EXCEPT
            !.selected_slot =
                st.available_slots[SelectedNumber(Lower(st.user_input))],
            !.current_step = "slot_selection",
            !.available_slots = << >>,
            !.waiting_for_user = TRUE]
    ELSE [WithReply(st, "pick") EXCEPT
            !.current_step = IF st.available_slots = << >>
                             THEN "intent_recognition"
                             ELSE "availability_check",
            !.waiting_for_user = TRUE]

\* _handle_slot_selection, lines 251-283
SlotSelection(st) ==
    IF Selects(st)
    THEN [WithReply(st, "confirm") EXCEPT
            !.selected_slot =
                st.available_slots[SelectedNumber(Lower(st.user_input))],
            !.current_step = "slot_selection",
            !.available_slots = << >>,
            !.waiting_for_user = TRUE]
    ELSE [WithReply(st, "pick") EXCEPT
            !.current_step = "availability_check",
            !.waiting_for_user = TRUE]

\* line 289: the reply confirms
Confirms(st) == ContainsAny(Lower(st.user_input), ConfirmWords)

\* lines 292-299: the reply does not confirm
Declined(st) ==
    [WithReply(st, "declined") EXCEPT
        !.current_step = "completion",
        !.waiting_for_user = TRUE]

\* what create_event can do: return an id, return None or raise; without a
\* service handle it returns a demo id
CreateOutcomes(svc) ==
    IF svc = "None" THEN {"id"} ELSE {"id", "None", "raises"}

\* _handle_booking_creation leaving the conversation in the slot_selection
\* step
BookingCreationStaying(st, outcome) ==
    [WithReply(st, IF st.selected_slot = Null THEN "bad_slot"
                   ELSE IF outcome = "id" THEN "booked"
                   ELSE IF outcome = "None" THEN "issue"
                   ELSE "error") EXCEPT
        !.current_step = st.current_step,
        !.waiting_for_user = FALSE]

\* _handle_booking_creation, lines 301-333, when create_event ends with
\* outcome
BookingCreation(st, outcome) ==
    [WithReply(st, IF st.selected_slot = Null THEN "bad_slot"
                   ELSE IF outcome = "id" THEN "booked"
                   ELSE IF outcome = "None" THEN "issue"
                   ELSE "error") EXCEPT
        !.current_step = "completion",
        !.waiting_for_user = FALSE]

\* _handle_completion, lines 335-389
Completion(st) ==
    LET str == Lower(st.user_input)
    IN  IF ContainsAny(str, BookingKeywords)
        THEN [WithReply(st, "another") EXCEPT
                !.current_step = "intent_recognition",
                !.extracted_info = [title |-> "Meeting",
                                    duration_minutes |-> 60],
                !.available_slots = << >>,
                !.selected_slot = Null,
                !.error_message = "None",
                !.needs_clarification = FALSE,
                !.waiting_for_user = TRUE]
        ELSE IF ContainsAny(str, GoodbyeKeywords)
        THEN [WithReply(st, "goodbye") EXCEPT
                !.current_step = "ended",
                !.waiting_for_user = FALSE]
        ELSE [WithReply(st, "menu") EXCEPT
                !.current_step = "completion",
                !.waiting_for_user = TRUE]

\* a conversation begins: the agent is constructed, its calendar service as
\* authenticate() left it, and no call has been made
ScriptInit ==
    /\ ResolverIdle
    /\ ApiIdle
    /\ pc = "idle"
    /\ \E st \in ServiceStates :
          service = st.service /\ credentials = st.credentials
    /\ start_date = 0
    /\ end_date = 0
    /\ duration_minutes = DefaultDuration
    /\ business_hours = <<DefaultOpenHour, DefaultCloseHour>>
    /\ busy_periods = << >>
    /\ busy_times = << >>
    /\ current_time = 0
    /\ end_business_day = 0
    /\ free_slots = << >>
    /\ result = << >>
    /\ returned = << >>
    /\ agent_state = Null
    /\ user_input = << >>
    /\ spc = "idle"
    /\ local_now \in LocalTimes
    /\ calendar_events = << >>
    /\ calls = 0
    /\ offered = << >>
    /\ selections = 0
    /\ AuthIdle

\* a call is about to be made with the state the last call returned
Called(handler) ==
    /\ spc = "idle"
    /\ calls < MaxTurns
    /\ agent_state # Null
    /\ Dispatch(agent_state.current_step) = handler
    /\ calls' = calls + 1

\* process_message(user_input, None), lines 123-144
FirstCall ==
    /\ spc = "idle"
    /\ calls < MaxTurns
    /\ agent_state = Null
    /\ \E input \in UserInputs :
          /\ user_input' = input
          /\ agent_state' = FirstState(input)
    /\ calls' = calls + 1
    /\ UNCHANGED <<spc, local_now, calendar_events, offered, selections>>
    /\ UNCHANGED <<finderVars, serviceVars, resolverVars, apiVars, authVars>>

\* a call in the greeting step
HandleIntentRecognition ==
    /\ Called("_handle_intent_recognition")
    /\ \E input \in UserInputs :
          /\ user_input' = input
          /\ agent_state' =
                IntentRecognition(WithUserMessage(agent_state, input))
    /\ UNCHANGED <<spc, local_now, calendar_events, offered, selections>>
    /\ UNCHANGED <<finderVars, serviceVars, resolverVars, apiVars, authVars>>

\* a call in the intent_recognition or date_extraction step, up to the call
\* of find_free_slots in line 210
HandleAvailabilityCheck ==
    /\ \/ Called("_handle_date_extraction")
       \/ Called("_handle_availability_check")
    /\ \E input \in UserInputs :
          LET st == IF Dispatch(agent_state.current_step)
                         = "_handle_date_extraction"
                    THEN DateExtraction(WithUserMessage(agent_state, input))
                    ELSE WithUserMessage(agent_state, input)
              window == ParseDatePreference(DateInput(st), local_now)
          IN  /\ user_input' = input
              /\ agent_state' = st
              /\ start_date' = ToSeconds(window.start_date)
              /\ end_date' = ToSeconds(window.end_date)
              /\ busy_periods' \in
                    CalendarAnswers(service, ToSeconds(window.start_date))
    /\ duration_minutes' = DefaultDuration
    /\ business_hours' = <<DefaultOpenHour, DefaultCloseHour>>
    /\ pc' = "start"
    /\ spc' = "search"
    /\ UNCHANGED <<busy_times, current_time, end_business_day, free_slots,
                   result, returned>>
    /\ UNCHANGED <<local_now, calendar_events, offered, selections>>
    /\ UNCHANGED <<serviceVars, resolverVars, apiVars, authVars>>

\* lines 216-250: find_free_slots has returned
AvailabilityChecked ==
    /\ spc = "search"
    /\ pc = "done"
    /\ agent_state' = AvailabilityFound(agent_state, result)
    /\ offered' = FirstFive(result)
    /\ spc' = "idle"
    /\ UNCHANGED <<user_input, local_now, calendar_events, calls, selections>>
    /\ UNCHANGED <<finderVars, serviceVars, resolverVars, apiVars, authVars>>

\* lines 240-250: the request to the calendar raised something other than
\* an HttpError
AvailabilityCheckRaised ==
    /\ spc = "search"
    /\ pc = "start"
    /\ service # "None"
    /\ agent_state' = AvailabilityRaised(agent_state)
    /\ offered' = agent_state.available_slots
    /\ pc' = "idle"
    /\ spc' = "idle"
    /\ UNCHANGED <<start_date, end_date, duration_minutes, business_hours,
                   busy_periods, busy_times, current_time, end_business_day,
                   free_slots, result, returned>>
    /\ UNCHANGED <<user_input, local_now, calendar_events, calls, selections>>
    /\ UNCHANGED <<serviceVars, resolverVars, apiVars, authVars>>

\* a call in the availability_check step
HandleSlotSelection ==
    /\ Called("_handle_slot_selection")
    /\ \E input \in UserInputs :
          LET st == WithUserMessage(agent_state, input)
          IN  /\ user_input' = input
              /\ agent_state' = SlotSelection(st)
              /\ selections' = IF Selects(st) THEN selections + 1
                               ELSE selections
    /\ UNCHANGED <<spc, local_now, calendar_events, offered>>
    /\ UNCHANGED <<finderVars, serviceVars, resolverVars, apiVars, authVars>>

\* a call in the slot_selection step that does not confirm
HandleFinalConfirmation ==
    /\ Called("_handle_final_confirmation")
    /\ \E input \in UserInputs :
          /\ ~Confirms(WithUserMessage(agent_state, input))
          /\ user_input' = input
          /\ agent_state' = Declined(WithUserMessage(agent_state, input))
    /\ UNCHANGED <<spc, local_now, calendar_events, offered, selections>>
    /\ UNCHANGED <<finderVars, serviceVars, resolverVars, apiVars, authVars>>

\* a call that reaches _handle_booking_creation: a confirmation in the
\* slot_selection step, or any input in the final_confirmation step
HandleBookingCreation ==
    /\ \/ Called("_handle_final_confirmation")
       \/ Called("_handle_booking_creation")
    /\ \E input \in UserInputs :
          LET st == WithUserMessage(agent_state, input)
          IN  /\ \/ Dispatch(agent_state.current_step)
                       = "_handle_booking_creation"
                 \/ Confirms(st)
              /\ user_input' = input
              /\ \E outcome \in CreateOutcomes(service) :
                    agent_state' = BookingCreation(st, outcome)
              /\ calendar_events' =
                    IF st.selected_slot # Null
                    THEN Append(calendar_events, st.selected_slot)
                    ELSE calendar_events
    /\ UNCHANGED <<spc, local_now, offered, selections>>
    /\ UNCHANGED <<finderVars, serviceVars, resolverVars, apiVars, authVars>>

\* a call in the completion step, or in a step process_message does not know
HandleCompletion ==
    /\ Called("_handle_completion")
    /\ \E input \in UserInputs :
          /\ user_input' = input
          /\ agent_state' = Completion(WithUserMessage(agent_state, input))
    /\ UNCHANGED <<spc, local_now, calendar_events, offered, selections>>
    /\ UNCHANGED <<finderVars, serviceVars, resolverVars, apiVars, authVars>>

\* lines 170-177: a call after the conversation has ended
ConversationEnded ==
    /\ Called("ended")
    /\ \E input \in UserInputs :
          /\ user_input' = input
          /\ agent_state' =
                WithReply(WithUserMessage(agent_state, input), "ended")
    /\ UNCHANGED <<spc, local_now, calendar_events, offered, selections>>
    /\ UNCHANGED <<finderVars, serviceVars, resolverVars, apiVars, authVars>>

ScriptNext ==
    \/ FirstCall
    \/ HandleIntentRecognition
    \/ HandleAvailabilityCheck
    \/ Prepare
    \/ SkipWeekend
    \/ SkipBusy
    \/ EmitSlot
    \/ RetryLater
    \/ Return
    \/ AvailabilityChecked
    \/ AvailabilityCheckRaised
    \/ HandleSlotSelection
    \/ HandleFinalConfirmation
    \/ HandleBookingCreation
    \/ HandleCompletion
    \/ ConversationEnded

ScriptSpec == ScriptInit /\ [][ScriptNext]_vars

----------------------------------------------------------------------------
(* GoogleCalendarService.authenticate (backend/cal_service/                   *)
(* google_calendar.py).  self.credentials is "None", "Credentials" for valid *)
(* credentials, "RefreshableCredentials" for expired ones with a refresh     *)
(* token, and "InvalidCredentials" for credentials that are not valid and    *)
(* cannot be refreshed.                                                      *)

\* what authenticate() finds: whether one of the variables of _is_production
\* is set, what token.pickle holds, whether get_google_credentials finds a
\* configuration, and what GOOGLE_TOKEN_JSON holds
Environments ==
    [production : BOOLEAN,
     token_pickle : {"absent", "unreadable", "Credentials",
                     "RefreshableCredentials", "InvalidCredentials"},
     creds_config : BOOLEAN,
     token_json : {"absent", "malformed", "Credentials",
                   "RefreshableCredentials"}]

\* the service object as __init__ leaves it (lines 20-21), and the call of
\* authenticate() about to begin
AuthInit ==
    /\ FinderIdle
    /\ ResolverIdle
    /\ ApiIdle
    /\ ScriptIdle
    /\ environ \in Environments
    /\ auth_pc = "start"
    /\ auth_result = "None"

\* authenticate() returns value, with the attributes as given
Returns(value, svc, creds) ==
    /\ auth_result' = value
    /\ service' = svc
    /\ credentials' = creds
    /\ auth_pc' = "returned"
    /\ UNCHANGED environ
    /\ UNCHANGED <<finderVars, resolverVars, apiVars, scriptVars>>

\* authenticate() goes on at position p with credentials creds
GoesOn(p, creds) ==
    /\ auth_pc' = p
    /\ credentials' = creds
    /\ UNCHANGED <<service, environ, auth_result>>
    /\ UNCHANGED <<finderVars, resolverVars, apiVars, scriptVars>>

\* lines 64-73: token.pickle is loaded in development when it exists; a
\* file that cannot be loaded is passed over
LoadToken ==
    /\ auth_pc = "start"
    /\ GoesOn("check",
              IF ~environ.production
                   /\ environ.token_pickle \notin {"absent", "unreadable"}
              THEN environ.token_pickle
              ELSE credentials)

\* line 76 false, or lines 76-101 with credentials that are kept as they
\* are: the service is built next
KeepCredentials ==
    /\ auth_pc = "check"
    /\ credentials \in {"Credentials", "InvalidCredentials"}
    /\ GoesOn("build", credentials)

\* lines 77-83 and 97-101: expired credentials with a refresh token are
\* refreshed, or dropped when the refresh raises
RefreshCredentials ==
    /\ auth_pc = "check"
    /\ credentials = "RefreshableCredentials"
    /\ \/ GoesOn("build", "Credentials")
       \/ GoesOn("obtain", "None")

\* line 85 with no credentials loaded
NoCredentials ==
    /\ auth_pc = "check"
    /\ credentials = "None"
    /\ GoesOn("obtain", credentials)

\* lines 87-89 and _handle_missing_credentials: without a configuration the
\* demo mode is set up
HandleMissingCredentials ==
    /\ auth_pc = "obtain"
    /\ ~environ.creds_config
    /\ Returns("True", "None", credentials)

\* lines 91-92 and _authenticate_production, lines 118-143: the credentials
\* of GOOGLE_TOKEN_JSON are taken, refreshed when expired, and True is
\* returned; without the variable, or when json.loads or the refresh
\* raises, the demo mode is set up
AuthenticateProduction ==
    /\ auth_pc = "obtain"
    /\ environ.creds_config
    /\ environ.production
    /\ CASE environ.token_json = "Credentials" ->
              Returns("True", service, "Credentials")
         [] environ.token_json = "RefreshableCredentials" ->
              \/ Returns("True", service, "Credentials")
              \/ Returns("True", "None", "RefreshableCredentials")
         [] OTHER -> Returns("True", "None", credentials)

\* lines 93-94 and _authenticate_development, lines 145-175: the OAuth flow
\* supplies the credentials and True is returned, or it raises and False
\* is returned
AuthenticateDevelopment ==
    /\ auth_pc = "obtain"
    /\ environ.creds_config
    /\ ~environ.production
    /\ \/ Returns("True", service, "Credentials")
       \/ Returns("False", service, credentials)

\* lines 105-112: the service is built and True returned, or build raises
\* and False is returned
BuildService ==
    /\ auth_pc = "build"
    /\ \/ Returns("True", "Resource", credentials)
       \/ Returns("False", service, credentials)

AuthNext ==
    \/ LoadToken
    \/ KeepCredentials
    \/ RefreshCredentials
    \/ NoCredentials
    \/ HandleMissingCredentials
    \/ AuthenticateProduction
    \/ AuthenticateDevelopment
    \/ BuildService

AuthSpec == AuthInit /\ [][AuthNext]_vars

----------------------------------------------------------------------------
(* Properties of find_free_slots *)

SlotsOf(seq) == {seq[i] : i \in 1..Len(seq)}
Overlaps(s, b) == s.start < b.end /\ s.end > b.start
Returned == pc = "done"
DefaultHours == business_hours = <<DefaultOpenHour, DefaultCloseHour>>
OneWeekdayWindow ==
    /\ DayOf(start_date) = DayOf(end_date)
    /\ Weekday(start_date) < FirstWeekendDay

\* C1: no slot the sweep appends, and so no slot it returns, overlaps a
\* successfully parsed busy interval.
C1_NoSlotOverlapsBusy ==
    \A s \in SlotsOf(free_slots) \cup SlotsOf(result) :
        \A b \in SlotsOf(busy_times) : ~Overlaps(s, b)

\* a call has returned slots that lie after a busy interval the sweep ran into
C1_Witness ==
    /\ Returned
    /\ \E s \in SlotsOf(result) : \E b \in SlotsOf(busy_times) :
          /\ b.start < b.end
          /\ ReplaceHour(start_date, business_hours[1]) < b.end
          /\ s.start >= b.end
          /\ DayOf(s.start) = DayOf(b.end)

\* C2: every returned slot starts at or after the open hour and ends at or
\* before the close hour of the calendar day it starts on.
C2_SlotsInsideBusinessHours ==
    Returned =>
        \A s \in SlotsOf(result) :
            /\ s.start >= ReplaceHour(s.start, business_hours[1])
            /\ s.end <= ReplaceHour(s.start, business_hours[2])

\* C3: no slot the sweep appends or returns starts on a Saturday or Sunday.
C3_NoWeekendSlot ==
    \A s \in SlotsOf(free_slots) \cup SlotsOf(result) :
        Weekday(s.start) < FirstWeekendDay

\* a busy interval ended on a weekend day, the sweep ran into it, and slots
\* after it were returned
C3_Witness ==
    /\ Returned
    /\ \E b \in SlotsOf(busy_times) :
          /\ Weekday(b.end) >= FirstWeekendDay
          /\ b.start < end_business_day
          /\ \E s \in SlotsOf(result) : s.start > b.end

\* C4: every returned slot lies within the requested window.
C4_SlotsInsideWindow ==
    Returned =>
        \A s \in SlotsOf(result) : s.start >= start_date /\ s.end <= end_date

\* C5: when the candidate overlaps a busy interval, the next candidate the
\* loop examines starts exactly at the end of the first overlapping interval.
C5_CursorMovesToBusyEnd ==
    [][(InLoop /\ ~OnWeekend /\ FirstConflict(current_time) # 0)
          => current_time' = busy_times[FirstConflict(current_time)].end]_vars

\* C6: one weekday, one busy interval 10:00-11:00, 60 minutes: no returned
\* slot starts in [09:30, 10:59], 09:00-10:00 is not returned and
\* 11:00-12:00 is returned.
C6_Scenario ==
    (/\ Returned
     /\ OneWeekdayWindow
     /\ DefaultHours
     /\ duration_minutes = DefaultDuration
     /\ busy_times = <<[start |-> ReplaceHour(start_date, 10),
                        end |-> ReplaceHour(start_date, 11)]>>)
    => LET day == ReplaceHour(start_date, 0)
           starts == {s.start : s \in SlotsOf(result)}
       IN  /\ \A t \in starts :
                ~(day + Hours(9) + Minutes(30) <= t
                  /\ t <= day + Hours(10) + Minutes(59))
           /\ day + Hours(9) \notin starts
           /\ day + Hours(11) \in starts

\* C7: with no busy interval, one business day 09:00-17:00 and 60 minutes,
\* the sweep produces starts only on the grid 09:00, 09:30, ..., 16:00.
C7_EmptyBusyGrid ==
    (/\ OneWeekdayWindow
     /\ DefaultHours
     /\ duration_minutes = DefaultDuration
     /\ pc # "start"
     /\ busy_times = << >>)
    => \A s \in SlotsOf(free_slots) :
          \E k \in 0..14 :
             s.start = ReplaceHour(start_date, DefaultOpenHour)
                         + k * Minutes(SlotStepMinutes)

\* C8: a window with start >= end yields an empty result.
C8_EmptyWindowNoSlots ==
    (Returned /\ start_date >= end_date) => result = << >>

\* C9: the result has at most ten slots, in strictly increasing order of
\* start, and they are the earliest slots the sweep found.
C9_TenEarliestInOrder ==
    Returned =>
        /\ Len(result) <= MaxReturned
        /\ Len(result) = Min(Len(free_slots), MaxReturned)
        /\ \A i, j \in 1..Len(result) :
              i < j => result[i].start < result[j].start
        /\ \A s \in SlotsOf(result) : s \in SlotsOf(free_slots)
        /\ \A s \in SlotsOf(free_slots) :
              s \notin SlotsOf(result)
                 => \A r \in SlotsOf(result) : r.start < s.start

\* the sweep found more than ten slots and the call returned
C9_Witness ==
    /\ Returned
    /\ Len(free_slots) > MaxReturned
    /\ Len(result) = MaxReturned

\* C10: every pass of the loop strictly advances the cursor, and the call
\* returns.
C10_SweepTerminates ==
    /\ [][(pc = "loop" /\ pc' = "loop") => current_time' > current_time]_vars
    /\ <>(pc = "done")

\* a call has returned whose sweep ran into a busy interval that ends before
\* it starts and resumed after it, with a second busy interval in the list
C10_Witness ==
    /\ Returned
    /\ Len(busy_times) > 1
    /\ current_time >= end_business_day
    /\ \E b \in SlotsOf(busy_times) :
          /\ b.end < b.start
          /\ \E s \in SlotsOf(free_slots) :
                s.start = b.end + Minutes(RetryStepMinutes)

\* C11: a call whose busy list is another call's list without its malformed
\* entries returns the same slots as that call.
C11_MalformedSkipped ==
    \A i, j \in 1..Len(returned) :
        returned[j].busy_periods = WithoutMalformed(returned[i].busy_periods)
            => returned[j].result = returned[i].result

\* the calendar supplied malformed entries next to well-formed ones in the
\* first call and only the well-formed ones in the second, and slots came back
C11_Witness ==
    /\ Len(returned) = 2
    /\ returned[1].busy_periods # returned[2].busy_periods
    /\ returned[2].busy_periods = WithoutMalformed(returned[1].busy_periods)
    /\ returned[2].busy_periods # << >>
    /\ ~WellFormed(returned[1].busy_periods[1])
    /\ returned[2].result # << >>

\* C12: two calls with the same arguments and the same busy periods return
\* the same slots, and no step of a call changes service or credentials.
C12_SameInputsSameOutput ==
    /\ [](\A i, j \in 1..Len(returned) :
            returned[i].busy_periods = returned[j].busy_periods
                => returned[i].result = returned[j].result)
    /\ [][service' = service /\ credentials' = credentials]_vars

\* the second of two calls with the same busy periods has returned fewer
\* than ten slots, so that slots left over from the first would show
C12_Witness ==
    /\ Len(returned) = 2
    /\ returned[1].busy_periods = returned[2].busy_periods
    /\ returned[2].result # << >>
    /\ Len(returned[2].result) < MaxReturned
    /\ service = "Resource"

\* C13: every slot the sweep appends or returns ends duration_minutes after
\* it starts and carries the requested duration.
C13_SlotHasRequestedDuration ==
    \A s \in SlotsOf(free_slots) \cup SlotsOf(result) :
        /\ s.end - s.start = Minutes(duration_minutes)
        /\ s.duration_minutes = duration_minutes

\* slots of a duration other than the default have been returned
C13_Witness ==
    /\ Returned
    /\ result # << >>
    /\ duration_minutes # DefaultDuration
----------------------------------------------------------------------------
(* Properties of _parse_smart_date *)

Resolved == rpc = "done"
\* the phrase as the branches see it
Phrase == Strip(Lower(date_preference))
\* the date the call resolved to
ResolvedDate == parsed_range.start_date
\* the days from the reference date to the resolved date
DaysFromNow == ToOrdinal(ResolvedDate) - ToOrdinal(now)
\* midnight of the given day lies before now
MidnightBeforeNow(y, m, d) ==
    LET n == DaysBeforeYear(y) + DaysBeforeMonth(y, m) + d - 1
    IN  \/ n < ToOrdinal(now)
        \/ n = ToOrdinal(now) /\ (SecondOfDay(now) > 0 \/ now.microsecond > 0)
NoHigherRuleThanWeekday ==
    /\ DatePattern(Phrase) = NoMatch
    /\ ~Contains(Phrase, KwToday)
    /\ ~Contains(Phrase, KwTomorrow)
    /\ ~Contains(Phrase, KwNextWeek)

\* C14: an explicit day and month that exist in the reference year resolve
\* to that day and month, in the reference year unless the day and month lie
\* strictly before the reference date, and then in the year after.
C14_ExplicitDateYear ==
    (/\ Resolved
     /\ DatePattern(Phrase) # NoMatch
     /\ ValidDate(now.year, DatePattern(Phrase).month, DatePattern(Phrase).day))
    => LET m == DatePattern(Phrase).month
           d == DatePattern(Phrase).day
           before == m < now.month \/ (m = now.month /\ d < now.day)
       IN  /\ ResolvedDate.month = m
           /\ ResolvedDate.day = d
           /\ ResolvedDate.year = IF before THEN now.year + 1 ELSE now.year

C16_AnyPhraseWithDayName ==
    (Resolved /\ FirstDayName(Phrase) # 0)
    => \E i \in 1..7 :
          Contains(Phrase, DayNames[i]) /\ WeekdayOf(ResolvedDate) = i - 1

\* C16 as amended: when the phrase contains a weekday name and matches none
\* of the rules before the weekday rule, the resolved date falls on the
\* first weekday, in the order Monday to Sunday, that the phrase names.
C16_WeekdayRuleHitsDay ==
    (Resolved /\ NoHigherRuleThanWeekday /\ FirstDayName(Phrase) # 0)
    => WeekdayOf(ResolvedDate) = FirstDayName(Phrase) - 1

\* a phrase naming two weekdays, the later one first, was resolved on a day
\* that is neither
C16_Witness ==
    /\ Resolved
    /\ date_preference = <<"s", "u", "n", "d", "a", "y", " ", "o", "r", " ", "t", "u", "e", "s", "d", "a", "y">>
    /\ WeekdayOf(now) = 3
    /\ WeekdayOf(ResolvedDate) = 1

\* C17: the first rule that matches, in the order explicit date, 'today',
\* 'tomorrow', 'next week', weekday name, default, alone determines the window.
C17_FirstMatchWins ==
    Resolved =>
        CASE DatePattern(Phrase) # NoMatch ->
               /\ ResolvedDate.month = DatePattern(Phrase).month
               /\ ResolvedDate.day \in {DatePattern(Phrase).day, 1}
               /\ parsed_range = DayWindow(ResolvedDate)
          [] Contains(Phrase, KwToday) ->
               parsed_range = DayWindow(now)
          [] Contains(Phrase, KwTomorrow) ->
               parsed_range = DayWindow(PlusDays(now, 1))
          [] Contains(Phrase, KwNextWeek) ->
               parsed_range = DayWindow(PlusDays(now, 7))
          [] FirstDayName(Phrase) # 0 ->
               /\ WeekdayOf(ResolvedDate) = FirstDayName(Phrase) - 1
               /\ DaysFromNow \in 0..7
               /\ parsed_range = DayWindow(ResolvedDate)
          [] OTHER ->
               parsed_range = DayWindow(now)

\* 'next week friday' was resolved on a day other than a Friday
C17_Witness ==
    /\ Resolved
    /\ date_preference = <<"n", "e", "x", "t", " ", "w", "e", "e", "k", " ", "f", "r", "i", "d", "a", "y">>
    /\ WeekdayOf(now) # 4
    /\ parse_trace.branch = "next week"
    /\ DaysFromNow = 7

\* C18: an explicit day that does not exist in the named month resolves,
\* without an error, to the first day of that month, in the reference year
\* unless that day's midnight lies before the reference time, and then in
\* the year after.
C18_InvalidDayFirstOfMonth ==
    (/\ Resolved
     /\ DatePattern(Phrase) # NoMatch
     /\ ~ValidDate(now.year, DatePattern(Phrase).month, DatePattern(Phrase).day))
    => LET m == DatePattern(Phrase).month
       IN  /\ ResolvedDate.month = m
           /\ ResolvedDate.day = 1
           /\ ResolvedDate.year = IF MidnightBeforeNow(now.year, m, 1)
                                  THEN now.year + 1 ELSE now.year
           /\ parsed_range = DayWindow(ResolvedDate)

\* '30 feb' was resolved after 1 February and rolled into the next year
C18_Witness ==
    /\ Resolved
    /\ date_preference = <<"3", "0", " ", "f", "e", "b">>
    /\ parse_trace.exc = "ValueError"
    /\ ResolvedDate.year = now.year + 1
    /\ ResolvedDate.month = 2 /\ ResolvedDate.day = 1

\* C19: 'June 29' resolves to the window that '29th June' resolves to.
C19_MonthThenDay ==
    (Resolved /\ date_preference = <<"J", "u", "n", "e", " ", "2", "9">>)
    => parsed_range = SmartDate(<<"2", "9", "t", "h", " ", "J", "u", "n", "e">>, now).range

\* C20 as stated: the call always returns, and whenever an exception was
\* raised while a rule was computed the result is the window of today.
C20_AnyExceptionGivesToday ==
    /\ rpc \in {"idle", "start", "done"}
    /\ (Resolved /\ parse_trace.exc # "none") => parsed_range = DayWindow(now)

\* C20 as amended: the call always returns a window of an existing date; the
\* only exception raised is the ValueError of an explicit date that does not
\* exist, which the rule's own handler catches, and the result is then the
\* window of the first day of the named month.
C20_NeverRaises ==
    /\ rpc \in {"idle", "start", "done"}
    /\ Resolved =>
          /\ ValidDate(ResolvedDate.year, ResolvedDate.month, ResolvedDate.day)
          /\ parsed_range = DayWindow(ResolvedDate)
          /\ parse_trace.exc \in {"none", "ValueError"}
          /\ parse_trace.exc = "ValueError" =>
                /\ parse_trace.handler = "inner"
                /\ parse_trace.branch = "explicit"
                /\ ResolvedDate.month = DatePattern(Phrase).month
                /\ ResolvedDate.day = 1

\* '29 feb' was resolved in a leap year after 29 February: the date exists,
\* the roll into the next year raised, and the handler caught it
C20_Witness ==
    /\ Resolved
    /\ date_preference = <<"2", "9", " ", "f", "e", "b">>
    /\ IsLeap(now.year)
    /\ parse_trace.exc = "ValueError"
    /\ parse_trace.handler = "inner"
    /\ ResolvedDate # ReplaceTime(now, 0, 0, 0, 0)

\* C21: the returned window starts at 00:00:00 and ends at 23:59:59.999999
\* of one and the same date, both in the timezone of the reference time, and
\* the start lies before the end.
C21_WindowIsOneLocalDay ==
    Resolved =>
       LET s == parsed_range.start_date
           e == parsed_range.end_date
       IN  /\ <<s.hour, s.minute, s.second, s.microsecond>> = <<0, 0, 0, 0>>
           /\ <<e.hour, e.minute, e.second, e.microsecond>> = <<23, 59, 59, 999999>>
           /\ <<s.year, s.month, s.day>> = <<e.year, e.month, e.day>>
           /\ s.tzinfo = now.tzinfo
           /\ e.tzinfo = now.tzinfo
           /\ DateLess(s, e)

\* a window of another year than the reference time's, for a reference time
\* that is not in UTC
C21_Witness ==
    /\ Resolved
    /\ now.tzinfo = "Asia/Kolkata"
    /\ parsed_range.start_date.year = now.year + 1
    /\ parsed_range.end_date.year = now.year + 1
    /\ parsed_range.end_date.microsecond = 999999

----------------------------------------------------------------------------
(* Properties of the /chat endpoint and the shared agent *)

\* the search tool of the request under way has resolved its date and
\* find_free_slots has returned
Searched == apc = "reply" /\ Call.tool = "search_available_slots"

\* C22: the window computed for a request of a session is the one the same
\* request gets when the requests of all other sessions are left out, that
\* is, it depends on the request's own phrase, timezone and time and on the
\* earlier requests of its own session only.
C22_IndependentOfOtherSessions ==
    Searched =>
       parsed_range =
          SmartDate(date_preference, SoloOf(session_id).current_time).range


\* a response has been sent and no request is under way: message is the
\* request it answers
Answered == apc = "idle" /\ response # Null

\* the stored history of every session is its processed user messages in
\* the order sent, each followed by one assistant entry
HistoryMatchesSent ==
    \A sid \in DOMAIN sessions :
       LET h == sessions[sid].conversation_history
           k == Len(SentOf(sid))
       IN  /\ Len(h) = 2 * k
           /\ \A i \in 1..k :
                  /\ h[2 * i - 1] = [role |-> "user", content |-> SentOf(sid)[i]]
                  /\ h[2 * i].role = "assistant"

\* C23 as stated: the response of /chat carries the session id of the
\* request whenever the request has one and a newly generated id otherwise,
\* and the stored history of a session is, after k processed requests, 2k
\* entries alternating user and assistant with the user messages in the
\* order sent, whatever other sessions request.
C23_SessionIdEchoedWhenPresent ==
    /\ Answered =>
          IF message.session_id # NoSessionId
          THEN response.session_id = message.session_id[1]
          ELSE response.session_id = Uuid4(issued)
    /\ HistoryMatchesSent

\* C23 amended: the session id of the request is echoed when it is a
\* non-empty string; a request without one, or with the empty string, gets a
\* newly generated id, which is never the empty string nor the key of a
\* stored session of an earlier id.  The history part holds as stated.
C23_SessionIdEchoedWhenNonEmpty ==
    /\ Answered =>
          /\ response.session_id # << >>
          /\ IF Truthy(message.session_id)
             THEN response.session_id = message.session_id[1]
             ELSE /\ response.session_id = Uuid4(issued)
                  /\ \A i \in 1..(issued - 1) : Uuid4(i) # Uuid4(issued)
    /\ HistoryMatchesSent

\* a session has been served twice, the second time under the id its first
\* response carried, with two different messages
C23_Witness ==
    /\ Answered
    /\ Truthy(message.session_id)
    /\ response.session_id = message.session_id[1]
    /\ session_id \in DOMAIN sessions
    /\ Len(sessions[session_id].conversation_history) = 4
    /\ sessions[session_id].conversation_history[1].content
          # sessions[session_id].conversation_history[3].content

\* C28: every slot the search_available_slots tool returns starts inside
\* the window that _parse_smart_date resolved for the requested date, taken
\* as the tool hands it to find_free_slots (both in naive UTC), in every
\* timezone of the map.
C28_SlotsInsideLocalDay ==
    Searched =>
       \A s \in SlotsOf(result) :
          /\ start_date <= s.start
          /\ s.start <= end_date

\* the step calls set_timezone: chat for a request whose timezone differs
\* from the agent's, or the change_timezone tool
CallsSetTimezone ==
    \/ /\ apc = "idle"
       /\ apc' = "invoke"
       /\ message'.timezone # << >>
       /\ message'.timezone # agent.timezone
    \/ /\ apc = "invoke"
       /\ Call.tool = "change_timezone"

\* a tool has resolved a date phrase for the request under way
ResolvedByTool ==
    /\ apc \in {"search", "reply"}
    /\ Call.tool \in {"search_available_slots", "get_calendar_events",
                      "verify_meeting_exists"}

\* C30: once the agent is constructed, agent.current_time changes only in a
\* step that calls set_timezone: process_message and the tools
\* search_available_slots, book_meeting, get_calendar_events and
\* verify_meeting_exists leave it as it is, and a date phrase is resolved
\* relative to it, whatever the clock shows at the time of the request.
C30_CurrentTimeOnlyBySetTimezone ==
    /\ [][agent # Null /\ agent'.current_time # agent.current_time
             => CallsSetTimezone]_vars
    /\ [](ResolvedByTool =>
             /\ now = agent.current_time
             /\ parsed_range =
                   SmartDate(date_preference, agent.current_time).range)

\* two days after construction a request in the agent's own timezone asks
\* for today, and the window is the day of construction
C30_Witness ==
    /\ Searched
    /\ clock = Instants[2]
    /\ agent.current_time = ConstructedAgent.current_time
    /\ parsed_range.start_date.day = ConstructedAgent.current_time.day
    /\ parsed_range.start_date.day # clock.day

----------------------------------------------------------------------------
(* Properties of the scripted agent *)

\* process_message has returned at least once and no call is under way
Replied == spc = "idle" /\ agent_state # Null

\* the last entry of the history of st
LastEntry(st) == st.conversation_history[Len(st.conversation_history)]

\* C24: the first call of TailorTalkAgent.process_message returns a history
\* that is the assistant's greeting alone, and every later call appends one
\* user entry and then one assistant entry: after n calls the history is the
\* greeting followed by n - 1 pairs user, assistant, and while
\* find_free_slots runs only the user entry of the call has been added.
C24_GreetingThenPairs ==
    agent_state # Null =>
       LET h == agent_state.conversation_history
           pairs == IF spc = "search" THEN calls - 2 ELSE calls - 1
       IN  /\ h[1] = Entry("assistant", "greeting")
           /\ Len(h) = 1 + 2 * pairs + (IF spc = "search" THEN 1 ELSE 0)
           /\ \A i \in 1..pairs :
                  /\ h[2 * i].role = "user"
                  /\ h[2 * i + 1].role = "assistant"
           /\ LastEntry(agent_state).role =
                  IF spc = "search" THEN "user" ELSE "assistant"

\* a conversation of nine calls that went through every step up to a booking
C24_Witness ==
    /\ Replied
    /\ calls = 9
    /\ Len(agent_state.conversation_history) = 17
    /\ LastEntry(agent_state).content = "booked"

\* C25: every window _parse_date_preference returns has its start before
\* its end, for every phrase and every time of day.
C25_WindowStartBeforeEnd ==
    spc = "search" =>
       LET window == ParseDatePreference(DateInput(agent_state), local_now)
       IN  DateLess(window.start_date, window.end_date)

\* the step calls calendar_service.create_event
CreatesEvent == Len(calendar_events') > Len(calendar_events)

\* C26: create_event is called only for a confirming reply in the
\* slot_selection step, the call before having selected one of the at most
\* five slots last offered, and for that slot; and no more events are
\* created than selections were made.
C26_OneBookingPerSelection ==
    /\ [][CreatesEvent =>
             /\ Len(calendar_events') = Len(calendar_events) + 1
             /\ agent_state.current_step = "slot_selection"
             /\ LastEntry(agent_state) = Entry("assistant", "confirm")
             /\ agent_state.selected_slot # Null
             /\ agent_state.selected_slot \in SlotsOf(offered)
             /\ Len(offered) <= MaxOffered
             /\ calendar_events'[Len(calendar_events')]
                   = agent_state.selected_slot
             /\ ContainsAny(Lower(user_input'), ConfirmWords)]_vars
    /\ [](Len(calendar_events) <= selections)

\* a second meeting has been booked, after a second availability check and
\* a second selection
C26_Witness ==
    /\ Replied
    /\ Len(calendar_events) = 2
    /\ selections = 2
    /\ agent_state.current_step = "completion"

\* the agent waits for a slot number and has no slot to offer
NothingToChoose ==
    /\ Replied
    /\ agent_state.current_step = "availability_check"
    /\ agent_state.available_slots = << >>

\* C27: once the step is availability_check with no available slot, every
\* call leaves it so, whatever the input: no search is started and no event
\* created.
C27_NoWayOutWithoutSlots ==
    [][NothingToChoose =>
          /\ NothingToChoose'
          /\ pc' = pc
          /\ calendar_events' = calendar_events]_vars

\* no slot was found, and the user has since named slot 2 and been asked
\* again for a number
C27_Witness ==
    /\ NothingToChoose
    /\ Len(agent_state.conversation_history) >= 7
    /\ user_input = <<"2">>
    /\ LastEntry(agent_state).content = "pick"
    /\ \E i \in 1..Len(agent_state.conversation_history) :
          agent_state.conversation_history[i].content = "no_slots"

----------------------------------------------------------------------------
(* Properties of authenticate *)

\* C29: once authenticate() has returned True, credentials that are not
\* None come with a service handle that is not None.
C29_CredentialsImplyService ==
    auth_result = "True" =>
       (credentials # "None" => service # "None")

====
